---- MODULE Spec2Model ----
(***************************************************************************)
(* A model of the SSMD -> SSML rewrite pipeline of ssmd (Converter, the    *)
(* processors, the annotation registry and the capability filter).         *)
(*                                                                         *)
(* A text is a sequence of tokens.  A token is one character of the text,  *)
(* one XML entity produced by escape_xml ("&lt;", "&gt;", "&amp;"), or one *)
(* fixed piece of a tag emitted by a processor (such as "<emphasis>" or    *)
(* "<sub alias=\"").  Every attribute value and every piece of text that   *)
(* comes from the input stays a run of characters, so the regular          *)
(* expressions of the processors see it character by character.  No        *)
(* regular expression of the source can match a proper part of a fixed tag *)
(* piece or of an entity, which is what makes those tokens atomic.         *)
(***************************************************************************)
EXTENDS Integers, Sequences, FiniteSets, TLC

VARIABLES
    config,      \* Converter.config: skip, capabilities, output_speak_tag, ...
    processors,  \* Converter.processors: the names of the non-skipped processors
    mode,        \* the public function that is running: "convert", "strip",
                 \* "parse_segments" (convert of the same text follows it),
                 \* "parse_sentences" or "parse_spans"
    input,       \* the ssmd_text argument of the call
    text,        \* the local `result` of convert/strip, `text` of the recursion
    pc,          \* position inside convert/strip
    idx,         \* index of the processor the for-loop is at
    depth,       \* nested _process_recursively frames of the current processor
    round,       \* number of the call in the session (1 or 2)
    prev,        \* what the previous call of the session was and returned
    capabilities, \* the `capabilities` argument of SSMD(...): a preset name
    XSAMPA_TABLE, \* PhonemeAnnotation._XSAMPA_TABLE: None (0) or a dict's id
    tables,       \* the dict objects the loader calls have allocated, by id
    threads,      \* the threads inside _load_xsampa_table: position, result
    table_file,   \* xsampa_to_ipa.txt: whether it exists, and its lines
    spans,        \* what parse_spans returned: clean_text and annotations
    segments,     \* what parse_segments returned: the list of segments
    voice_blocks, \* parse_sentences: the (voice, text) blocks of the input
    splitter_text, \* the text handed to the external sentence splitter
    sentence_texts, \* the sentence texts _split_sentences returned last
    sentences,    \* parse_sentences: the sentences built so far
    documents,    \* the Document objects, by id: their private fields
    call,         \* the Document method that waits for convert to return
    returned      \* what the last Document method returned or raised

\* the state of the X-SAMPA table loader
loaderVars == <<XSAMPA_TABLE, tables, threads, table_file>>

\* the state of the structured parser and the span tracker
parserVars ==
    <<spans, segments, voice_blocks, splitter_text, sentence_texts, sentences>>

\* the state outside the Converter
\* the state of the Document objects and of their callers
documentVars == <<documents, call, returned>>

aux == <<capabilities, loaderVars, parserVars, documentVars>>

vars == <<config, processors, mode, input, text, pc, idx, depth, round, prev,
          capabilities, XSAMPA_TABLE, tables, threads, table_file, spans,
          segments, voice_blocks, splitter_text, sentence_texts, sentences,
          documents, call, returned>>

(***************************************************************************)
(* Sequence helpers (Python slicing and searching on 1-based sequences).   *)
(***************************************************************************)
Slice(s, i, j) == IF i > j THEN <<>> ELSE SubSeq(s, i, j)

From(s, i) == Slice(s, i, Len(s))

Upto(s, j) == Slice(s, 1, j)

MinOf(S) == CHOOSE i \in S : \A j \in S : i <= j

MaxOf(S) == CHOOSE i \in S : \A j \in S : i >= j

\* s[i..] starts with the sequence pat
StartsAt(s, i, pat) ==
    /\ i >= 1
    /\ i + Len(pat) - 1 <= Len(s)
    /\ \A k \in 1..Len(pat) : s[i + k - 1] = pat[k]

EndsWith(s, pat) == Len(pat) <= Len(s) /\ StartsAt(s, Len(s) - Len(pat) + 1, pat)

\* first position >= i whose token is in the set stop, Len(s)+1 when there is none
RunEnd(s, i, stop) ==
    LET hits == {k \in i..Len(s) : s[k] \in stop}
    IN  IF hits = {} THEN Len(s) + 1 ELSE MinOf(hits)

\* first position >= i whose token is NOT in the set keep, Len(s)+1 when there is none
SpanEnd(s, i, keep) ==
    LET hits == {k \in i..Len(s) : s[k] \notin keep}
    IN  IF hits = {} THEN Len(s) + 1 ELSE MinOf(hits)

RECURSIVE Concat(_)
Concat(ss) == IF ss = <<>> THEN <<>> ELSE Head(ss) \o Concat(Tail(ss))

Range(s) == {s[k] : k \in 1..Len(s)}

NoMatch == [ok |-> FALSE]

\* Op applied to the value v: a local name for a value that is used several
\* times
Bind(v, Op(_)) == Op(v)

(***************************************************************************)
(* Character classes of the regular expressions.                           *)
(***************************************************************************)
\* a-z, A-Z and 0-9 as sequences in order, and as sets
LowerSeqAZ == <<"a", "b", "c", "d", "e", "f", "g", "h", "i", "j", "k", "l",
               "m", "n", "o", "p", "q", "r", "s", "t", "u", "v", "w", "x",
               "y", "z">>

UpperSeqAZ == <<"A", "B", "C", "D", "E", "F", "G", "H", "I", "J", "K", "L",
               "M", "N", "O", "P", "Q", "R", "S", "T", "U", "V", "W", "X",
               "Y", "Z">>

LowerLetters == Range(LowerSeqAZ)

UpperLetters == Range(UpperSeqAZ)

Digits == {"0", "1", "2", "3", "4", "5", "6", "7", "8", "9"}

\* [a-zA-Z0-9]
Alnum == LowerLetters \cup UpperLetters \cup Digits

\* the IPA letters of the model: U+026A (small capital I), U+00E7 (c cedilla)
IpaLetters == {"U+026A", "U+00E7"}

\* \w (Unicode letters included)
WordChars == Alnum \cup {"_"} \cup IpaLetters

\* \s
Spaces == {" ", "\n"}

\* the entities escape_xml produces
Entities == {"&lt;", "&gt;", "&amp;"}

(***************************************************************************)
(* The fixed pieces of the tags the processors and annotations emit.  A    *)
(* piece that ends in ="  opens an attribute value, which follows as       *)
(* characters and is closed by the character ".                            *)
(***************************************************************************)
\* pieces ending in an open attribute value
OpenAttrPieces == {
    "<mark name=\"", "<break time=\"",
    "<prosody volume=\"", "<prosody rate=\"", "<prosody pitch=\"",
    " volume=\"", " rate=\"", " pitch=\"",
    "<lang xml:lang=\"", "<sub alias=\"",
    "<say-as interpret-as=\"", " format=\"", " detail=\"",
    "<phoneme alphabet=\"ipa\" ph=\"",
    "<audio src=\"", " clipBegin=\"", " clipEnd=\"", " speed=\"",
    " repeatCount=\"", " soundLevel=\"",
    "<voice name=\"", "<voice language=\"", "<voice gender=\"",
    "<voice variant=\"", " gender=\"", " variant=\""}

\* pieces holding complete attribute values
ClosedAttrPieces == {
    "<emphasis level=\"strong\">", "<emphasis level=\"moderate\">",
    "<emphasis level=\"reduced\">",
    "<break strength=\"none\"/>", "<break strength=\"x-weak\"/>",
    "<break strength=\"medium\"/>", "<break strength=\"strong\"/>",
    "<break strength=\"x-strong\"/>",
    "<break time=\"100ms\"/>", "<break time=\"75ms\"/>", "<break time=\"50ms\"/>",
    "<amazon:effect name=\"whispered\">", "<?xml version=\"1.0\" ?>"}

\* pieces without attributes
PlainPieces == {
    "<emphasis>", "</emphasis>", "</prosody>", "</lang>", "</sub>", "</say-as>",
    "</phoneme>", "<desc>", "</desc>", "</audio>", "</voice>", "<voice >",
    "</amazon:effect>", "<p>", "</p>", "<s>", "</s>", "<speak>", "</speak>",
    "/>"}

\* start tags and empty-element tags only the pretty printer writes
PrettyPieces == {
    "<voice>", "<p/>", "<s/>", "<speak/>", "<desc/>", "<voice/>", "<emphasis/>",
    "<emphasis level=\"strong\"/>", "<emphasis level=\"moderate\"/>",
    "<emphasis level=\"reduced\"/>"}

Pieces == OpenAttrPieces \cup ClosedAttrPieces \cup PlainPieces \cup PrettyPieces

\* the token contains the character <
HasLt(c) == c = "<" \/ (c \in Pieces /\ c \notin {" volume=\"", " rate=\"",
              " pitch=\"", " format=\"", " detail=\"", " clipBegin=\"",
              " clipEnd=\"", " speed=\"", " repeatCount=\"", " soundLevel=\"",
              " gender=\"", " variant=\"", "/>"})

\* the token contains < or >
HasAngle(c) == c \in {"<", ">", "/>"} \/ HasLt(c)

\* [a-zA-Z0-9] / \w / \s as predicates on a token (a piece or an entity
\* neither starts nor ends with such a character)
IsAlnum(c) == c \in Alnum

IsWord(c) == c \in WordChars

IsSpace(c) == c \in Spaces

(***************************************************************************)
(* utils.py                                                                *)
(***************************************************************************)
\* html.escape(text, quote=False)
EscapeChar(c) == CASE c = "&" -> "&amp;"
                   [] c = "<" -> "&lt;"
                   [] c = ">" -> "&gt;"
                   [] OTHER   -> c

escape_xml(t) == [k \in 1..Len(t) |-> EscapeChar(t[k])]

\* html.unescape(text): every & of the text begins one of the three entities
UnescapeChar(c) == CASE c = "&amp;" -> "&"
                     [] c = "&lt;"  -> "<"
                     [] c = "&gt;"  -> ">"
                     [] OTHER       -> c

unescape_xml(t) == [k \in 1..Len(t) |-> UnescapeChar(t[k])]

(***************************************************************************)
(* processors/emphasis.py                                                  *)
(***************************************************************************)
\* r"\*\*([^\*]+)\*\*"  tried at position i
EmphasisStrongAt(t, i) ==
    LET j == RunEnd(t, i + 2, {"*"})
    IN  IF /\ StartsAt(t, i, <<"*", "*">>)
           /\ j > i + 2
           /\ StartsAt(t, j, <<"*", "*">>)
        THEN [ok |-> TRUE, start |-> i, end |-> j + 1, group |-> 1,
              content |-> Slice(t, i + 2, j - 1)]
        ELSE NoMatch

\* r"\*([^\*]+)\*"  tried at position i
EmphasisModerateAt(t, i) ==
    LET j == RunEnd(t, i + 1, {"*"})
    IN  IF /\ StartsAt(t, i, <<"*">>)
           /\ j > i + 1
           /\ j <= Len(t)
        THEN [ok |-> TRUE, start |-> i, end |-> j, group |-> 2,
              content |-> Slice(t, i + 1, j - 1)]
        ELSE NoMatch

\* r"(?<!_)_(?!_)([^_]+?)(?<!_)_(?!_)"  tried at position i
EmphasisReducedAt(t, i) ==
    LET j == RunEnd(t, i + 1, {"_"})
    IN  IF /\ StartsAt(t, i, <<"_">>)
           /\ (i = 1 \/ t[i - 1] # "_")
           /\ j > i + 1
           /\ j <= Len(t)
           /\ (j = Len(t) \/ t[j + 1] # "_")
        THEN [ok |-> TRUE, start |-> i, end |-> j, group |-> 3,
              content |-> Slice(t, i + 1, j - 1)]
        ELSE NoMatch

\* the three alternatives in the order of the pattern
EmphasisAt(t, i) ==
    IF EmphasisStrongAt(t, i).ok THEN EmphasisStrongAt(t, i)
    ELSE IF EmphasisModerateAt(t, i).ok THEN EmphasisModerateAt(t, i)
    ELSE EmphasisReducedAt(t, i)

\* EmphasisProcessor.regex().search(text)
EmphasisSearch(t) ==
    LET S == {i \in 1..Len(t) : EmphasisAt(t, i).ok}
    IN  IF S = {} THEN NoMatch ELSE EmphasisAt(t, MinOf(S))

\* EmphasisProcessor.result(match)
EmphasisResult(m) ==
    CASE m.group = 1 -> <<"<emphasis level=\"strong\">">> \o m.content \o <<"</emphasis>">>
      [] m.group = 2 -> <<"<emphasis>">> \o m.content \o <<"</emphasis>">>
      [] OTHER       -> <<"<emphasis level=\"reduced\">">> \o m.content \o <<"</emphasis>">>

\* EmphasisProcessor.text(match)
EmphasisText(m) == m.content

(***************************************************************************)
(* processors/mark.py                                                      *)
(***************************************************************************)
\* r"@(\w+)"  tried at position i
MarkAt(t, i) ==
    LET j == SpanEnd(t, i + 1, WordChars)
    IN  IF StartsAt(t, i, <<"@">>) /\ j > i + 1
        THEN [ok |-> TRUE, start |-> i, end |-> j - 1,
              content |-> Slice(t, i + 1, j - 1)]
        ELSE NoMatch

MarkSearch(t) ==
    LET S == {i \in 1..Len(t) : MarkAt(t, i).ok}
    IN  IF S = {} THEN NoMatch ELSE MarkAt(t, MinOf(S))

\* MarkProcessor.result(match)
MarkResult(m) == <<"<mark name=\"">> \o m.content \o <<"\"", "/>">>

(***************************************************************************)
(* processors/break_processor.py                                           *)
(***************************************************************************)
\* r"\.\.\.(\d+(?:s|ms)|[nwcsp])"  tried at position i
BreakAt(t, i) ==
    LET d == SpanEnd(t, i + 3, Digits)
    IN  IF ~StartsAt(t, i, <<".", ".", ".">>) THEN NoMatch
        ELSE IF d > i + 3 /\ StartsAt(t, d, <<"s">>)
        THEN [ok |-> TRUE, start |-> i, end |-> d, content |-> Slice(t, i + 3, d)]
        ELSE IF d > i + 3 /\ StartsAt(t, d, <<"m", "s">>)
        THEN [ok |-> TRUE, start |-> i, end |-> d + 1,
              content |-> Slice(t, i + 3, d + 1)]
        ELSE IF i + 3 <= Len(t) /\ t[i + 3] \in {"n", "w", "c", "s", "p"}
        THEN [ok |-> TRUE, start |-> i, end |-> i + 3, content |-> <<t[i + 3]>>]
        ELSE NoMatch

BreakSearch(t) ==
    LET S == {i \in 1..Len(t) : BreakAt(t, i).ok}
    IN  IF S = {} THEN NoMatch ELSE BreakAt(t, MinOf(S))

\* BreakProcessor.result(match)
BreakResult(m) ==
    CASE m.content = <<"n">> -> <<"<break strength=\"none\"/>">>
      [] m.content = <<"w">> -> <<"<break strength=\"x-weak\"/>">>
      [] m.content = <<"c">> -> <<"<break strength=\"medium\"/>">>
      [] m.content = <<"s">> -> <<"<break strength=\"strong\"/>">>
      [] m.content = <<"p">> -> <<"<break strength=\"x-strong\"/>">>
      [] OTHER -> <<"<break time=\"">> \o m.content \o <<"\"", "/>">>

(***************************************************************************)
(* processors/paragraph.py                                                 *)
(***************************************************************************)
\* self.regex().sub(rep, text) for r"\n\n+": every maximal run of two or more
\* newlines becomes rep
RECURSIVE ParagraphSub(_, _)
ParagraphSub(t, rep) ==
    IF t = <<>> THEN <<>>
    ELSE IF StartsAt(t, 1, <<"\n", "\n">>)
    THEN rep \o ParagraphSub(From(t, SpanEnd(t, 1, {"\n"})), rep)
    ELSE <<Head(t)>> \o ParagraphSub(Tail(t), rep)

\* the substitution alone, without the wrap of the whole result
ParagraphUnwrapped(t) == ParagraphSub(t, <<"</p>", "<p>">>)

\* ParagraphProcessor.substitute(text)
ParagraphSubstitute(t) ==
    LET r1 == ParagraphSub(t, <<"</p>", "<p>">>)
        r2 == IF r1 # <<>> /\ Head(r1) # "<p>" THEN <<"<p>">> \o r1 ELSE r1
    IN  IF r2 # <<>> /\ r2[Len(r2)] # "</p>" THEN r2 \o <<"</p>">> ELSE r2

\* ParagraphProcessor.strip_ssmd(text)
ParagraphStrip(t) == ParagraphSub(t, <<"\n", "\n">>)

(***************************************************************************)
(* processors/sentence.py                                                  *)
(***************************************************************************)
\* str.strip() of a run of characters
RECURSIVE LStrip(_)
LStrip(s) == IF s # <<>> /\ IsSpace(Head(s)) THEN LStrip(Tail(s)) ELSE s

RECURSIVE RStrip(_)
RStrip(s) == IF s # <<>> /\ IsSpace(s[Len(s)]) THEN RStrip(Upto(s, Len(s) - 1)) ELSE s

Strip(s) == RStrip(LStrip(s))

\* str.split(sep) for a one-character separator
RECURSIVE Split(_, _)
Split(s, sep) ==
    LET k == RunEnd(s, 1, {sep})
    IN  IF k > Len(s) THEN <<s>>
        ELSE <<Upto(s, k - 1)>> \o Split(From(s, k + 1), sep)

\* r"<p>([^<>]+)(?:\n([^<>\n]+))*</p>"  tried at position i
SentenceAt(t, i) ==
    LET j == MinOf({k \in (i + 1)..Len(t) : HasAngle(t[k])} \cup {Len(t) + 1})
    IN  IF StartsAt(t, i, <<"<p>">>) /\ j > i + 1 /\ StartsAt(t, j, <<"</p>">>)
        THEN [ok |-> TRUE, start |-> i, end |-> j, content |-> Slice(t, i + 1, j - 1)]
        ELSE NoMatch

SentenceSearch(t) ==
    LET S == {i \in 1..Len(t) : SentenceAt(t, i).ok}
    IN  IF S = {} THEN NoMatch ELSE SentenceAt(t, MinOf(S))

\* ' '.join(f"<s>{line.strip()}</s>" for line in lines if line.strip())
RECURSIVE JoinSentences(_)
JoinSentences(lines) ==
    IF lines = <<>> THEN <<>>
    ELSE LET h    == Strip(Head(lines))
             rest == JoinSentences(Tail(lines))
         IN  IF h = <<>> THEN rest
             ELSE <<"<s>">> \o h \o <<"</s>">>
                  \o (IF rest = <<>> THEN <<>> ELSE <<" ">> \o rest)

\* SentenceProcessor.result(match) with self.enabled = enabled
SentenceResult(m, enabled) ==
    IF ~enabled THEN <<"<p>">> \o m.content \o <<"</p>">>
    ELSE <<"<p>">> \o JoinSentences(Split(m.content, "\n")) \o <<"</p>">>

(***************************************************************************)
(* processors/heading.py                                                   *)
(***************************************************************************)
\* HeadingProcessor.DEFAULT_LEVELS: level -> the (tag, value) pairs applied
DEFAULT_LEVELS ==
    (1 :> << <<"emphasis", "strong">>,   <<"pause", "100ms">> >>) @@
    (2 :> << <<"emphasis", "moderate">>, <<"pause", "75ms">> >>) @@
    (3 :> << <<"emphasis", "reduced">>,  <<"pause", "50ms">> >>)

\* config["heading_levels"] = {} of TTSCapabilities.to_config
NoLevels == [l \in {} |-> <<>>]

\* r"^\s*(#+)\s*(.+)" with re.MULTILINE, tried at the line start i.
\* a: end of the leading \s*, b: end of #+, c: end of the second \s*.
\* When nothing is left for (.+) the engine gives back white space of the
\* second \s*, and after that one # of (#+).
HeadingAt(t, i) ==
    LET a  == SpanEnd(t, i, Spaces)
        b  == SpanEnd(t, a, {"#"})
        c  == SpanEnd(t, b, Spaces)
        sp == {k \in b..(c - 1) : t[k] # "\n"}
        eol(k) == RunEnd(t, k, {"\n"}) - 1
    IN  IF ~((i = 1 \/ t[i - 1] = "\n") /\ b > a) THEN NoMatch
        ELSE IF c <= Len(t)
        THEN [ok |-> TRUE, start |-> i, end |-> eol(c), level |-> b - a,
              content |-> Slice(t, c, eol(c))]
        ELSE IF sp # {}
        THEN [ok |-> TRUE, start |-> i, end |-> eol(MaxOf(sp)), level |-> b - a,
              content |-> Slice(t, MaxOf(sp), eol(MaxOf(sp)))]
        ELSE IF b - a >= 2
        THEN [ok |-> TRUE, start |-> i, end |-> eol(b - 1), level |-> b - a - 1,
              content |-> Slice(t, b - 1, eol(b - 1))]
        ELSE NoMatch

HeadingSearch(t) ==
    LET S == {i \in 1..Len(t) : HeadingAt(t, i).ok}
    IN  IF S = {} THEN NoMatch ELSE HeadingAt(t, MinOf(S))

\* the loop body of HeadingProcessor.result for one (tag, value) pair
HeadingApply(r, tag, value) ==
    IF tag = "emphasis"
    THEN <<CASE value = "strong"   -> "<emphasis level=\"strong\">"
             [] value = "moderate" -> "<emphasis level=\"moderate\">"
             [] OTHER              -> "<emphasis level=\"reduced\">">>
         \o r \o <<"</emphasis>">>
    ELSE IF tag = "pause"
    THEN r \o <<" ", CASE value = "100ms" -> "<break time=\"100ms\"/>"
                       [] value = "75ms"  -> "<break time=\"75ms\"/>"
                       [] OTHER           -> "<break time=\"50ms\"/>">>
    ELSE r

RECURSIVE HeadingFold(_, _)
HeadingFold(r, effects) ==
    IF effects = <<>> THEN r
    ELSE HeadingFold(HeadingApply(r, Head(effects)[1], Head(effects)[2]),
                     Tail(effects))

\* HeadingProcessor.result(match); t is the text the match was found in
HeadingResult(t, m, levels) ==
    IF m.level \notin DOMAIN levels
    THEN Slice(t, m.start, m.end)
    ELSE HeadingFold(m.content, levels[m.level])

(***************************************************************************)
(* processors/prosody.py                                                   *)
(***************************************************************************)
\* the alternatives of group 1 in the order of the pattern
ProsodyMarkers ==
    << <<"~", "~">>, <<"-", "-">>, <<"+", "+">>, <<"-">>, <<"+">>,
       <<"&lt;", "&lt;">>, <<"&lt;">>, <<"&gt;", "&gt;">>, <<"&gt;">>,
       <<"_", "_">>, <<"^", "^">>, <<"_">>, <<"^">> >>

\* [^~\-+<>_^]
IsProsodyContent(c) == c \notin {"~", "-", "+", "_", "^"} /\ ~HasAngle(c)

\* first position >= i that [^~\-+<>_^] does not match
SpanEndContent(t, i) ==
    LET hits == {k \in i..Len(t) : ~IsProsodyContent(t[k])}
    IN  IF hits = {} THEN Len(t) + 1 ELSE MinOf(hits)

\* marker mk at i, then ([^~\-+<>_^]+?) up to the first place where \1
\* follows and no alphanumeric character follows that
ProsodyTry(t, i, mk) ==
    LET lim == SpanEndContent(t, i + Len(mk))
        J == {j \in (i + Len(mk) + 1)..lim :
                /\ StartsAt(t, j, mk)
                /\ (j + Len(mk) > Len(t) \/ ~IsAlnum(t[j + Len(mk)]))}
    IN  IF StartsAt(t, i, mk) /\ J # {}
        THEN [ok |-> TRUE, start |-> i, end |-> MinOf(J) + Len(mk) - 1,
              marker |-> mk, content |-> Slice(t, i + Len(mk), MinOf(J) - 1)]
        ELSE NoMatch

\* the whole pattern tried at position i
ProsodyAt(t, i) ==
    LET K == {k \in 1..Len(ProsodyMarkers) : ProsodyTry(t, i, ProsodyMarkers[k]).ok}
    IN  IF (i = 1 \/ ~IsAlnum(t[i - 1])) /\ K # {}
        THEN ProsodyTry(t, i, ProsodyMarkers[MinOf(K)])
        ELSE NoMatch

ProsodySearch(t) ==
    LET S == {i \in 1..Len(t) : ProsodyAt(t, i).ok}
    IN  IF S = {} THEN NoMatch ELSE ProsodyAt(t, MinOf(S))

Chars_silent == <<"s", "i", "l", "e", "n", "t">>
Chars_xsoft  == <<"x", "-", "s", "o", "f", "t">>
Chars_soft   == <<"s", "o", "f", "t">>
Chars_medium == <<"m", "e", "d", "i", "u", "m">>
Chars_loud   == <<"l", "o", "u", "d">>
Chars_xloud  == <<"x", "-", "l", "o", "u", "d">>
Chars_xslow  == <<"x", "-", "s", "l", "o", "w">>
Chars_slow   == <<"s", "l", "o", "w">>
Chars_fast   == <<"f", "a", "s", "t">>
Chars_xfast  == <<"x", "-", "f", "a", "s", "t">>
Chars_xlow   == <<"x", "-", "l", "o", "w">>
Chars_low    == <<"l", "o", "w">>
Chars_high   == <<"h", "i", "g", "h">>
Chars_xhigh  == <<"x", "-", "h", "i", "g", "h">>

\* ProsodyProcessor.result(match); t is the text the match was found in
ProsodyResult(t, m) ==
    LET mk == m.marker
        open == CASE mk = <<"-", "-">> -> <<"<prosody volume=\"">> \o Chars_xsoft
                  [] mk = <<"-">>      -> <<"<prosody volume=\"">> \o Chars_soft
                  [] mk = <<"+">>      -> <<"<prosody volume=\"">> \o Chars_loud
                  [] mk = <<"+", "+">> -> <<"<prosody volume=\"">> \o Chars_xloud
                  [] mk = <<"&lt;", "&lt;">> -> <<"<prosody rate=\"">> \o Chars_xslow
                  [] mk = <<"&lt;">>         -> <<"<prosody rate=\"">> \o Chars_slow
                  [] mk = <<"&gt;">>         -> <<"<prosody rate=\"">> \o Chars_fast
                  [] mk = <<"&gt;", "&gt;">> -> <<"<prosody rate=\"">> \o Chars_xfast
                  [] mk = <<"_", "_">> -> <<"<prosody pitch=\"">> \o Chars_xlow
                  [] mk = <<"_">>      -> <<"<prosody pitch=\"">> \o Chars_low
                  [] mk = <<"^">>      -> <<"<prosody pitch=\"">> \o Chars_high
                  [] mk = <<"^", "^">> -> <<"<prosody pitch=\"">> \o Chars_xhigh
                  [] OTHER -> <<>>
    IN  IF open = <<>> THEN Slice(t, m.start, m.end)
        ELSE open \o <<"\"", ">">> \o m.content \o <<"</prosody>">>

\* the while-loop of ProsodyProcessor.substitute over `between`, from index k
\* (1-based) with the flag in_attr
RECURSIVE InAttrScan(_, _, _)
InAttrScan(s, k, in_attr) ==
    IF k > Len(s) THEN in_attr
    ELSE IF s[k] \in OpenAttrPieces THEN InAttrScan(s, k + 1, TRUE)
    ELSE IF s[k] \in ClosedAttrPieces THEN InAttrScan(s, k + 1, FALSE)
    ELSE IF s[k] = "=" /\ k + 1 <= Len(s) /\ s[k + 1] = "\""
    THEN InAttrScan(s, k + 2, TRUE)
    ELSE IF in_attr /\ s[k] = "\"" THEN InAttrScan(s, k + 1, FALSE)
    ELSE InAttrScan(s, k + 1, in_attr)

\* the match at m.start lies in an attribute value, as substitute decides it
ProsodyInAttr(t, m) ==
    LET pre  == Upto(t, m.start - 1)
        L    == {k \in 1..Len(pre) : HasLt(pre[k])}
    IN  L # {} /\ InAttrScan(From(pre, MaxOf(L)), 1, FALSE)

\* ProsodyProcessor.substitute(text)
RECURSIVE ProsodySubstitute(_)
ProsodySubstitute(t) ==
    LET m == ProsodySearch(t)
    IN  IF ~m.ok THEN t
        ELSE IF ProsodyInAttr(t, m)
        THEN Upto(t, m.end) \o ProsodySubstitute(From(t, m.end + 1))
        ELSE Upto(t, m.start - 1) \o ProsodyResult(t, m) \o From(t, m.end + 1)

(***************************************************************************)
(* annotations: the recognisers (regex + __init__) of each variant.        *)
(* An annotation is a record; a field that is None in the source is <<>>.  *)
(***************************************************************************)
NoAnnotation == [kind |-> "none"]

\* s after the prefix pre and the white space that follows it (\s*)
AfterPrefix(s, pre) == From(s, SpanEnd(s, Len(pre) + 1, Spaces))

\* (.+)$ : one or more characters, none of them a newline, up to the end
DotPlus(s) == s # <<>> /\ "\n" \notin Range(s)

AllIn(s, S) == \A k \in 1..Len(s) : s[k] \in S

\* str.lower() on the characters of the model
Lower(c) ==
    IF c \in UpperLetters
    THEN LowerSeqAZ[CHOOSE k \in 1..26 : UpperSeqAZ[k] = c] ELSE c

LowerSeq(s) == [k \in 1..Len(s) |-> Lower(s[k])]

\* end of \d+(?:\.\d+)? starting at i (last position), 0 when no digit is at i
NumberEnd(s, i) ==
    LET d == SpanEnd(s, i, Digits)
        f == SpanEnd(s, d + 1, Digits)
    IN  IF d = i THEN 0
        ELSE IF StartsAt(s, d, <<".">>) /\ f > d + 1 THEN f - 1
        ELSE d - 1

\* ---- annotations/audio.py ----
AudioExtensions == {<<".", "m", "p", "3">>, <<".", "o", "g", "g">>, <<".", "w", "a", "v">>, <<".", "m", "4", "a">>, <<".", "a", "a", "c">>, <<".", "f", "l", "a", "c">>}

\* r"clip:\s*(\d+(?:\.\d+)?[ms])-(\d+(?:\.\d+)?[ms])" tried at position i
AudioClipAt(s, i) ==
    LET a  == SpanEnd(s, i + 5, Spaces)
        e1 == NumberEnd(s, a)
        e2 == NumberEnd(s, e1 + 3)
    IN  IF /\ StartsAt(s, i, <<"c", "l", "i", "p", ":">>)
           /\ e1 > 0 /\ e1 + 2 <= Len(s)
           /\ s[e1 + 1] \in {"m", "s"} /\ s[e1 + 2] = "-"
           /\ e2 > 0 /\ e2 + 1 <= Len(s) /\ s[e2 + 1] \in {"m", "s"}
        THEN [ok |-> TRUE, start |-> i, end |-> e2 + 1,
              g1 |-> Slice(s, a, e1 + 1), g2 |-> Slice(s, e1 + 3, e2 + 1)]
        ELSE NoMatch

\* r"speed:\s*(\d+(?:\.\d+)?%)" tried at position i
AudioSpeedAt(s, i) ==
    LET a == SpanEnd(s, i + 6, Spaces)
        e == NumberEnd(s, a)
    IN  IF StartsAt(s, i, <<"s", "p", "e", "e", "d", ":">>) /\ e > 0 /\ StartsAt(s, e + 1, <<"%">>)
        THEN [ok |-> TRUE, start |-> i, end |-> e + 1, g1 |-> Slice(s, a, e + 1)]
        ELSE NoMatch

\* r"repeat:\s*(\d+)" tried at position i
AudioRepeatAt(s, i) ==
    LET a == SpanEnd(s, i + 7, Spaces)
        e == SpanEnd(s, a, Digits)
    IN  IF StartsAt(s, i, <<"r", "e", "p", "e", "a", "t", ":">>) /\ e > a
        THEN [ok |-> TRUE, start |-> i, end |-> e - 1, g1 |-> Slice(s, a, e - 1)]
        ELSE NoMatch

\* r"level:\s*([+-]?\d+(?:\.\d+)?dB)" tried at position i
AudioLevelAt(s, i) ==
    LET a == SpanEnd(s, i + 6, Spaces)
        n == IF a <= Len(s) /\ s[a] \in {"+", "-"} THEN a + 1 ELSE a
        e == NumberEnd(s, n)
    IN  IF StartsAt(s, i, <<"l", "e", "v", "e", "l", ":">>) /\ e > 0 /\ StartsAt(s, e + 1, <<"d", "B">>)
        THEN [ok |-> TRUE, start |-> i, end |-> e + 2, g1 |-> Slice(s, a, e + 2)]
        ELSE NoMatch

\* re.search of one of the four attribute patterns ("clip", "speed", ...)
AudioAttrAt(s, i, which) ==
    CASE which = "clip"   -> AudioClipAt(s, i)
      [] which = "speed"  -> AudioSpeedAt(s, i)
      [] which = "repeat" -> AudioRepeatAt(s, i)
      [] OTHER            -> AudioLevelAt(s, i)

AudioAttrSearch(s, which) ==
    LET S == {i \in 1..Len(s) : AudioAttrAt(s, i, which).ok}
    IN  IF S = {} THEN NoMatch ELSE AudioAttrAt(s, MinOf(S), which)

\* remaining[: m.start()] + remaining[m.end():]
Cut(s, m) == IF m.ok THEN Upto(s, m.start - 1) \o From(s, m.end + 1) ELSE s

\* AudioAnnotation.regex() and AudioAnnotation.__init__ on the stripped
\* parameter s.  s holds no comma (the caller split on commas), so the three
\* clean-up substitutions of __init__ only strip white space.
AudioRecord(url, clip, spd, rep, lvl, rest) ==
    [kind |-> "audio", url |-> url,
     clip_begin |-> IF clip.ok THEN clip.g1 ELSE <<>>,
     clip_end |-> IF clip.ok THEN clip.g2 ELSE <<>>,
     speed |-> IF spd.ok THEN spd.g1 ELSE <<>>,
     repeat_count |-> IF rep.ok THEN rep.g1 ELSE <<>>,
     sound_level |-> IF lvl.ok THEN lvl.g1 ELSE <<>>,
     alt_text |-> Strip(rest)]

\* the four steps of __init__ on the remaining text: search one attribute
\* pattern, keep its groups, cut the match out of the remaining text
AudioLevel(url, clip, spd, rep, remaining) ==
    Bind(AudioAttrSearch(remaining, "level"), LAMBDA lvl :
        AudioRecord(url, clip, spd, rep, lvl, Cut(remaining, lvl)))

AudioRepeat(url, clip, spd, remaining) ==
    Bind(AudioAttrSearch(remaining, "repeat"), LAMBDA rep :
        AudioLevel(url, clip, spd, rep, Cut(remaining, rep)))

AudioSpeed(url, clip, remaining) ==
    Bind(AudioAttrSearch(remaining, "speed"), LAMBDA spd :
        AudioRepeat(url, clip, spd, Cut(remaining, spd)))

AudioClip(url, remaining) ==
    Bind(AudioAttrSearch(remaining, "clip"), LAMBDA clip :
        AudioSpeed(url, clip, Cut(remaining, clip)))

AudioCreate(s) ==
    LET e    == SpanEnd(s, 1, {c \in Range(s) : ~IsSpace(c)})
        url  == Upto(s, e - 1)
        rest == From(s, SpanEnd(s, e, Spaces))
        isUrl == \E x \in AudioExtensions :
                    EndsWith(LowerSeq(url), x) /\ Len(url) > Len(x)
    IN  IF isUrl /\ (e > Len(s) \/ DotPlus(rest))
        THEN AudioClip(url, Strip(rest))
        ELSE NoAnnotation

\* ---- annotations/extension.py ----
Name_whisper == <<"w", "h", "i", "s", "p", "e", "r">>

Name_audio == <<"a", "u", "d", "i", "o">>

\* the keys of ExtensionAnnotation.DEFAULT_EXTENSIONS
DEFAULT_EXTENSIONS == {Name_whisper, Name_audio}

\* r"^ext:\s*(\w+)$"
ExtensionCreate(s) ==
    LET name == AfterPrefix(s, <<"e", "x", "t", ":">>)
    IN  IF StartsAt(s, 1, <<"e", "x", "t", ":">>) /\ name # <<>> /\ AllIn(name, WordChars)
        THEN [kind |-> "extension", extension_name |-> name]
        ELSE NoAnnotation

\* ---- annotations/voice.py ----
VoiceNameChars == Alnum \cup {"_", "-"}

\* gender:\s*(?:male|female|neutral)  or  variant:\s*\d+ , as a whole item
IsGenderItem(s) ==
    /\ StartsAt(s, 1, <<"g", "e", "n", "d", "e", "r", ":">>)
    /\ AfterPrefix(s, <<"g", "e", "n", "d", "e", "r", ":">>) \in {<<"m", "a", "l", "e">>, <<"f", "e", "m", "a", "l", "e">>, <<"n", "e", "u", "t", "r", "a", "l">>}

IsVariantItem(s) ==
    /\ StartsAt(s, 1, <<"v", "a", "r", "i", "a", "n", "t", ":">>)
    /\ AfterPrefix(s, <<"v", "a", "r", "i", "a", "n", "t", ":">>) # <<>>
    /\ AllIn(AfterPrefix(s, <<"v", "a", "r", "i", "a", "n", "t", ":">>), Digits)

\* VoiceAnnotation.regex().match(s) for a stripped s:
\* r"^voice:\s*[a-zA-Z0-9_-]+(?:\s*,\s*(?:gender:...|variant:\s*\d+))*$"
VoiceMatches(s) ==
    LET ps   == Split(s, ",")
        name == AfterPrefix(Strip(ps[1]), <<"v", "o", "i", "c", "e", ":">>)
    IN  /\ StartsAt(s, 1, <<"v", "o", "i", "c", "e", ":">>)
        /\ name # <<>> /\ AllIn(name, VoiceNameChars)
        /\ \A k \in 2..Len(ps) : IsGenderItem(Strip(ps[k])) \/ IsVariantItem(Strip(ps[k]))

\* VoiceAnnotation.__init__ on a string that VoiceMatches
VoiceCreate(s) ==
    LET ps    == Split(s, ",")
        value == AfterPrefix(Strip(ps[1]), <<"v", "o", "i", "c", "e", ":">>)
        G     == {k \in 2..Len(ps) : IsGenderItem(Strip(ps[k]))}
        V     == {k \in 2..Len(ps) : IsVariantItem(Strip(ps[k]))}
        isLang == \/ (Len(value) = 2 /\ AllIn(value, LowerLetters))
                  \/ (/\ Len(value) = 5 /\ AllIn(Upto(value, 2), LowerLetters)
                      /\ value[3] = "-" /\ AllIn(From(value, 4), UpperLetters))
        asLang == G # {} \/ V # {} \/ isLang
    IN  IF ~VoiceMatches(s) THEN NoAnnotation
        ELSE [kind |-> "voice",
              name |-> IF asLang THEN <<>> ELSE value,
              language |-> IF asLang THEN value ELSE <<>>,
              gender |-> IF G = {} THEN <<>>
                         ELSE AfterPrefix(Strip(ps[MinOf(G)]), <<"g", "e", "n", "d", "e", "r", ":">>),
              variant |-> IF V = {} THEN <<>>
                          ELSE AfterPrefix(Strip(ps[MinOf(V)]), <<"v", "a", "r", "i", "a", "n", "t", ":">>)]

\* ---- annotations/say_as.py ----
\* the quote characters of the format group
Quotes == {"\"", "'"}

\* r"(?:\s*,\s*detail:\s*(\d+))?$" on the rest r of a parameter: the group
\* is left out on an empty rest, and matches ", detail: N" up to the end
SayAsDetail(r) ==
    IF r = <<>> THEN [ok |-> TRUE, detail |-> <<>>]
    ELSE Bind(LStrip(r), LAMBDA a :
         IF a # <<>> /\ Head(a) = ","
               /\ StartsAt(LStrip(Tail(a)), 1, <<"d", "e", "t", "a", "i", "l", ":">>)
         THEN Bind(AfterPrefix(LStrip(Tail(a)), <<"d", "e", "t", "a", "i", "l", ":">>),
                   LAMBDA d : [ok |-> d # <<>> /\ AllIn(d, Digits), detail |-> d])
         ELSE [ok |-> FALSE, detail |-> <<>>])

\* what follows n characters of the format value in q: the closing quote is
\* taken when there is one (nothing of the rest matches a quote)
SayAsAfterFormat(q, n) ==
    IF n < Len(q) /\ q[n + 1] \in Quotes THEN From(q, n + 2) ELSE From(q, n + 1)

\* r'["\']?([^"\']+)["\']?' and the detail group on c: the opening quote is
\* taken when there is one, and [^"\']+ is greedy, so the format value is
\* the longest run without a quote after which the remainder of the pattern
\* matches (an unquoted value runs to the end of the parameter and takes a
\* following ", detail: N" with it)
SayAsValue(c) ==
    Bind(IF c # <<>> /\ Head(c) \in Quotes THEN Tail(c) ELSE c, LAMBDA q :
    Bind({n \in 1..(RunEnd(q, 1, Quotes) - 1) :
             SayAsDetail(SayAsAfterFormat(q, n)).ok}, LAMBDA N :
        IF N = {} THEN [ok |-> FALSE, format |-> <<>>, detail |-> <<>>]
        ELSE [ok |-> TRUE, format |-> Strip(Upto(q, MaxOf(N))),
              detail |-> SayAsDetail(SayAsAfterFormat(q, MaxOf(N))).detail]))

\* r'(?:\s*,\s*format:\s*["\']?([^"\']+)["\']?)?' and the detail group on the
\* rest r after the word: \s* after "format:" takes as many spaces as leave
\* a match for the value; when the format group matches nowhere it is left
\* out
SayAsRest(r) ==
    Bind(LStrip(r), LAMBDA a :
    IF a # <<>> /\ Head(a) = ","
          /\ StartsAt(LStrip(Tail(a)), 1, <<"f", "o", "r", "m", "a", "t", ":">>)
    THEN Bind(From(LStrip(Tail(a)), 8), LAMBDA raw :
         Bind({k \in 1..SpanEnd(raw, 1, Spaces) : SayAsValue(From(raw, k)).ok}, LAMBDA K :
             IF K = {} THEN [ok |-> FALSE, format |-> <<>>, detail |-> <<>>]
             ELSE SayAsValue(From(raw, MaxOf(K)))))
    ELSE [ok |-> SayAsDetail(r).ok, format |-> <<>>, detail |-> SayAsDetail(r).detail])

\* SayAsAnnotation.try_create(s): regex().match(s), then __init__
SayAsCreate(s) ==
    IF ~StartsAt(s, 1, <<"a", "s", ":">>) THEN NoAnnotation
    ELSE Bind(AfterPrefix(s, <<"a", "s", ":">>), LAMBDA v :
         Bind(SpanEnd(v, 1, WordChars), LAMBDA e :
             IF e > 1 /\ SayAsRest(From(v, e)).ok
             THEN [kind |-> "say_as", interpret_as |-> Upto(v, e - 1),
                   format |-> SayAsRest(From(v, e)).format,
                   detail |-> SayAsRest(From(v, e)).detail]
             ELSE NoAnnotation))

\* ---- annotations/phoneme.py ----
\* the X-SAMPA table _load_xsampa_table builds from xsampa_to_ipa.txt, in
\* the order _xsampa_to_ipa sorts it in; the entries are those of the
\* example of the class docstring (dIC -> U+0064 U+026A U+00E7)
XsampaTable == << <<<<"I">>, <<"U+026A">>>>, <<<<"C">>, <<"U+00E7">>>> >>

\* str.replace(old, new)
RECURSIVE Replace(_, _, _)
Replace(s, old, new) ==
    IF s = <<>> THEN <<>>
    ELSE IF StartsAt(s, 1, old) THEN new \o Replace(From(s, Len(old) + 1), old, new)
    ELSE <<Head(s)>> \o Replace(Tail(s), old, new)

\* PhonemeAnnotation._xsampa_to_ipa(xsampa): the for-loop from entry k on
RECURSIVE XsampaToIpa(_, _)
XsampaToIpa(s, k) ==
    IF k > Len(XsampaTable) THEN s
    ELSE XsampaToIpa(Replace(s, XsampaTable[k][1], XsampaTable[k][2]), k + 1)

\* r"^(ph|ipa):\s*(.+)$"
PhonemeCreate(s) ==
    LET isPh  == StartsAt(s, 1, <<"p", "h", ":">>)
        isIpa == StartsAt(s, 1, <<"i", "p", "a", ":">>)
        v     == IF isPh THEN AfterPrefix(s, <<"p", "h", ":">>)
                 ELSE AfterPrefix(s, <<"i", "p", "a", ":">>)
    IN  IF (isPh \/ isIpa) /\ DotPlus(v)
        THEN [kind |-> "phoneme",
              phonemes |-> IF isPh THEN XsampaToIpa(Strip(v), 1) ELSE Strip(v)]
        ELSE NoAnnotation

\* ---- annotations/prosody.py ----
\* ProsodyAnnotation.VOLUME_MAP / RATE_MAP / PITCH_MAP .get(key); <<>> is None
VOLUME_MAP(d) == CASE d = "0" -> Chars_silent [] d = "1" -> Chars_xsoft
                   [] d = "2" -> Chars_soft   [] d = "3" -> Chars_medium
                   [] d = "4" -> Chars_loud   [] d = "5" -> Chars_xloud
                   [] OTHER -> <<>>

RATE_MAP(d) == CASE d = "1" -> Chars_xslow [] d = "2" -> Chars_slow
                 [] d = "3" -> Chars_medium [] d = "4" -> Chars_fast
                 [] d = "5" -> Chars_xfast [] OTHER -> <<>>

PITCH_MAP(d) == CASE d = "1" -> Chars_xlow [] d = "2" -> Chars_low
                  [] d = "3" -> Chars_medium [] d = "4" -> Chars_high
                  [] d = "5" -> Chars_xhigh [] OTHER -> <<>>

\* the value of one v/r/p parameter: relative values as they are, a key of
\* the map mapped, anything else as it is (MAP.get(value, value))
ProsodyValue(attr, value) ==
    LET mapped == IF Len(value) # 1 THEN <<>>
                  ELSE CASE attr = "v" -> VOLUME_MAP(value[1])
                         [] attr = "r" -> RATE_MAP(value[1])
                         [] OTHER      -> PITCH_MAP(value[1])
    IN  IF \/ value[1] \in {"+", "-"}
           \/ EndsWith(value, <<"d", "B">>) \/ EndsWith(value, <<"%">>)
        THEN value
        ELSE IF mapped # <<>> THEN mapped ELSE value

\* the names group 2 of the pattern accepts, with their short form
ProsodyAttrNames ==
    << <<<<"v">>, "v">>, <<<<"r">>, "r">>, <<<<"p">>, "p">>,
       <<<<"v", "o", "l", "u", "m", "e">>, "v">>, <<<<"r", "a", "t", "e">>, "r">>, <<<<"p", "i", "t", "c", "h">>, "p">> >>

\* r"^(?:vrp:\s*(\d{1,3})|([vrp]|volume|rate|pitch):\s*(.+))$" and __init__
ProsodyCreate(s) ==
    LET vrp == AfterPrefix(s, <<"v", "r", "p", ":">>)
        K   == {k \in 1..Len(ProsodyAttrNames) :
                   /\ StartsAt(s, 1, ProsodyAttrNames[k][1] \o <<":">>)
                   /\ DotPlus(AfterPrefix(s, ProsodyAttrNames[k][1] \o <<":">>))}
        k0    == MinOf(K)
        attr  == ProsodyAttrNames[k0][2]
        value == Strip(AfterPrefix(s, ProsodyAttrNames[k0][1] \o <<":">>))
    IN  IF /\ StartsAt(s, 1, <<"v", "r", "p", ":">>)
           /\ Len(vrp) \in 1..3 /\ AllIn(vrp, Digits)
        THEN [kind |-> "prosody",
              volume |-> VOLUME_MAP(vrp[1]),
              rate   |-> IF Len(vrp) > 1 THEN RATE_MAP(vrp[2]) ELSE <<>>,
              pitch  |-> IF Len(vrp) > 2 THEN PITCH_MAP(vrp[3]) ELSE <<>>]
        ELSE IF K # {}
        THEN [kind |-> "prosody",
              volume |-> IF attr = "v" THEN ProsodyValue(attr, value) ELSE <<>>,
              rate   |-> IF attr = "r" THEN ProsodyValue(attr, value) ELSE <<>>,
              pitch  |-> IF attr = "p" THEN ProsodyValue(attr, value) ELSE <<>>]
        ELSE NoAnnotation

\* ProsodyAnnotation.combine(other)
ProsodyCombine(self, other) ==
    [self EXCEPT !.volume = IF self.volume = <<>> THEN other.volume ELSE @,
                 !.rate   = IF self.rate = <<>> THEN other.rate ELSE @,
                 !.pitch  = IF self.pitch = <<>> THEN other.pitch ELSE @]

\* ---- annotations/substitution.py ----
\* r"^sub:\s*(.+)$"
SubstitutionCreate(s) ==
    LET v == AfterPrefix(s, <<"s", "u", "b", ":">>)
    IN  IF StartsAt(s, 1, <<"s", "u", "b", ":">>) /\ DotPlus(v)
        THEN [kind |-> "substitution", alias |-> Strip(v)]
        ELSE NoAnnotation

\* ---- annotations/language.py ----
\* LanguageAnnotation.DEFAULTS
LanguageDefaults ==
    (<<"e", "n">> :> <<"e", "n", "-", "U", "S">>) @@
    (<<"d", "e">> :> <<"d", "e", "-", "D", "E">>) @@
    (<<"f", "r">> :> <<"f", "r", "-", "F", "R">>) @@
    (<<"e", "s">> :> <<"e", "s", "-", "E", "S">>) @@
    (<<"i", "t">> :> <<"i", "t", "-", "I", "T">>) @@
    (<<"p", "t">> :> <<"p", "t", "-", "P", "T">>) @@
    (<<"r", "u">> :> <<"r", "u", "-", "R", "U">>) @@
    (<<"z", "h">> :> <<"z", "h", "-", "C", "N">>) @@
    (<<"j", "a">> :> <<"j", "a", "-", "J", "P">>) @@
    (<<"k", "o">> :> <<"k", "o", "-", "K", "R">>) @@
    (<<"a", "r">> :> <<"a", "r", "-", "S", "A">>) @@
    (<<"h", "i">> :> <<"h", "i", "-", "I", "N">>) @@
    (<<"n", "l">> :> <<"n", "l", "-", "N", "L">>) @@
    (<<"p", "l">> :> <<"p", "l", "-", "P", "L">>) @@
    (<<"s", "v">> :> <<"s", "v", "-", "S", "E">>) @@
    (<<"d", "a">> :> <<"d", "a", "-", "D", "K">>) @@
    (<<"n", "o">> :> <<"n", "o", "-", "N", "O">>) @@
    (<<"f", "i">> :> <<"f", "i", "-", "F", "I">>)

\* [a-z]{2}(?:-[A-Z]{2})? matching the whole of c; the characters of the
\* model stand for the classes [a-z] and [A-Z]
IsLangCode(c) ==
    \/ (Len(c) = 2 /\ AllIn(c, LowerLetters))
    \/ (/\ Len(c) = 5 /\ AllIn(Upto(c, 2), LowerLetters)
        /\ c[3] = "-" /\ AllIn(From(c, 4), UpperLetters))

\* r"^(?:lang:\s*([a-z]{2}(?:-[A-Z]{2})?)|([a-z]{2}(?:-[A-Z]{2})?))$"
LanguageCreate(s) ==
    LET code == IF StartsAt(s, 1, <<"l", "a", "n", "g", ":">>)
                THEN AfterPrefix(s, <<"l", "a", "n", "g", ":">>)
                ELSE s
    IN  IF IsLangCode(code)
        THEN [kind |-> "language",
              lang |-> IF code \in DOMAIN LanguageDefaults
                       THEN LanguageDefaults[code] ELSE code]
        ELSE NoAnnotation

(***************************************************************************)
(* annotations/__init__.py                                                 *)
(***************************************************************************)
\* get_annotation(annotation_str): the variants in their order of trial; each
\* try_create matches against annotation_str.strip()
get_annotation(str) ==
    Bind(Strip(str), LAMBDA s :
    Bind(<<AudioCreate(s), ExtensionCreate(s), VoiceCreate(s), SayAsCreate(s),
           PhonemeCreate(s), ProsodyCreate(s), SubstitutionCreate(s),
           LanguageCreate(s)>>, LAMBDA tried :
    Bind({k \in 1..Len(tried) : tried[k].kind # "none"}, LAMBDA found :
        IF found = {} THEN NoAnnotation ELSE tried[MinOf(found)])))

(***************************************************************************)
(* annotations/phoneme.py: the lazily loaded X-SAMPA table.  A dict is an  *)
(* object on the heap: `tables` maps the id of a dict (the number of the   *)
(* thread whose call allocated it) to its content, and a reference to a    *)
(* dict is its id.  Every step below is one access to shared state, which  *)
(* is what threads of the interpreter interleave.                          *)
(***************************************************************************)
\* the number of threads that call the loader
MaxThreads == 3

\* the number of calls one thread makes
MaxCalls == 2

Threads == 1..MaxThreads

\* _XSAMPA_TABLE: dict[str, str] | None = None
NoTable == 0

\* table = {}
EmptyDict == [x \in {} |-> <<>>]

\* the lines of xsampa_to_ipa.txt: a comment, an empty line, the two entries
\* of XsampaTable and a line of one word
XsampaFile ==
    << <<"#", " ", "x">>,
       <<"\n">>,
       <<"I", " ", "U+026A", "\n">>,
       <<" ", "C", " ", " ", "U+00E7">>,
       <<"Z", "\n">> >>

\* the files of the model: missing, empty, and XsampaFile
TableFiles ==
    {[exists |-> FALSE, lines |-> <<>>],
     [exists |-> TRUE, lines |-> <<>>],
     [exists |-> TRUE, lines |-> XsampaFile]}

\* the body of the for loop on one line: table after `table[xsampa] = ipa`
ReadLine(table, raw) ==
    Bind(Strip(raw), LAMBDA line :
        IF line = <<>> \/ StartsAt(line, 1, <<"#">>) THEN table
        ELSE Bind(RunEnd(line, 1, Spaces), LAMBDA k :
            IF k > Len(line) THEN table
            ELSE Bind(Upto(line, k - 1), LAMBDA xsampa :
                 [x \in DOMAIN table \cup {xsampa} |->
                     IF x = xsampa THEN LStrip(From(line, k)) ELSE table[x]])))

\* the statements of _load_xsampa_table in the order they run
LoadPublishFirst ==
    <<"check", "alloc", "publish", "exists", "read", "return">>

LoadStatements ==
    <<"check", "alloc", "exists", "read", "publish", "return">>

\* the statement after statement st
After(st) ==
    LoadStatements[(CHOOSE k \in 1..Len(LoadStatements) : LoadStatements[k] = st) + 1]

\* if cls._XSAMPA_TABLE is not None
Check(t) ==
    /\ threads[t].pc = "check"
    /\ threads' = [threads EXCEPT ![t].pc =
                      IF XSAMPA_TABLE # NoTable THEN "return_shared" ELSE After("check")]
    /\ UNCHANGED <<XSAMPA_TABLE, tables, table_file>>

\* return cls._XSAMPA_TABLE
ReturnShared(t) ==
    /\ threads[t].pc = "return_shared"
    /\ threads' = [threads EXCEPT ![t].pc = "done", ![t].result = XSAMPA_TABLE]
    /\ UNCHANGED <<XSAMPA_TABLE, tables, table_file>>

\* table = {}
Alloc(t) ==
    /\ threads[t].pc = "alloc"
    /\ tables' = [tables EXCEPT ![t] = EmptyDict]
    /\ threads' = [threads EXCEPT ![t].pc = After("alloc"), ![t].table = t]
    /\ UNCHANGED <<XSAMPA_TABLE, table_file>>

\* if table_file.exists(): open it
Exists(t) ==
    /\ threads[t].pc = "exists"
    /\ threads' = [threads EXCEPT
                      ![t].pc = IF table_file.exists THEN "read" ELSE After("read"),
                      ![t].line = 1]
    /\ UNCHANGED <<XSAMPA_TABLE, tables, table_file>>

\* one turn of `for line in f`, or its end
Read(t) ==
    /\ threads[t].pc = "read"
    /\ IF threads[t].line > Len(table_file.lines)
       THEN /\ threads' = [threads EXCEPT ![t].pc = After("read")]
            /\ UNCHANGED tables
       ELSE /\ tables' = [tables EXCEPT ![threads[t].table] =
                             ReadLine(@, table_file.lines[threads[t].line])]
            /\ threads' = [threads EXCEPT ![t].line = @ + 1]
    /\ UNCHANGED <<XSAMPA_TABLE, table_file>>

\* cls._XSAMPA_TABLE = table
Publish(t) ==
    /\ threads[t].pc = "publish"
    /\ XSAMPA_TABLE' = threads[t].table
    /\ threads' = [threads EXCEPT ![t].pc = After("publish")]
    /\ UNCHANGED <<tables, table_file>>

\* return table
Return(t) ==
    /\ threads[t].pc = "return"
    /\ threads' = [threads EXCEPT ![t].pc = "done", ![t].result = threads[t].table]
    /\ UNCHANGED <<XSAMPA_TABLE, tables, table_file>>

\* the thread converts another phoneme: _xsampa_to_ipa calls the loader again
CallAgain(t) ==
    /\ threads[t].pc = "done"
    /\ threads[t].calls < MaxCalls
    /\ threads' = [threads EXCEPT ![t].pc = "check", ![t].calls = @ + 1,
                                  ![t].result = NoTable]
    /\ UNCHANGED <<XSAMPA_TABLE, tables, table_file>>

\* no thread is in the loader
LoaderIdle ==
    /\ XSAMPA_TABLE = NoTable
    /\ tables = [t \in {} |-> EmptyDict]
    /\ threads = <<>>
    /\ table_file = [exists |-> FALSE, lines |-> <<>>]

(***************************************************************************)
(* parse_spans (the span tracker).  Its code is not part of the sources at *)
(* hand (spans.py holds the result types only); it is modelled from        *)
(* section 4.5 of the specification: the annotations are processed in      *)
(* source order, a running shift holds the difference between the lengths  *)
(* of the input and of the output up to the current position, and a        *)
(* directive block contributes a span over its whole clean-text range.     *)
(***************************************************************************)
\* the tokens that open and close a directive block
DivOpen == "<div lang='fr'>\n"

DivClose == "\n</div>"

\* AnnotationSpan(char_start, char_end, attrs, kind); offsets count from 0
AnnotationSpan(start, end, attrs, kind) ==
    [char_start |-> start, char_end |-> end, attrs |-> attrs, kind |-> kind]

\* the offset ignoring the shift
Unshifted(i, shift) == i

\* the offset in the output of the input position i, under the shift the
\* markup removed before i has accumulated
Shifted(i, shift) == i - shift

\* [text]{attrs} tried at position i: positions of "]" and "}"
SpanAnnotationAt(t, i) ==
    LET j == RunEnd(t, i + 1, {"]"})
        k == RunEnd(t, j + 2, {"}"})
    IN  IF /\ StartsAt(t, i, <<"[">>)
           /\ j > i + 1
           /\ StartsAt(t, j, <<"]", "{">>)
           /\ k > j + 2 /\ k <= Len(t)
        THEN [ok |-> TRUE, close |-> j, end |-> k]
        ELSE [ok |-> FALSE, close |-> 0, end |-> 0]

\* the scan from input position i (1-based): out is the clean text so far,
\* shift the running shift, open the stack of the starts of open blocks
RECURSIVE ScanSpans(_, _, _, _, _, _)
ScanSpans(t, i, shift, out, found, open) ==
    IF i > Len(t) THEN [clean_text |-> out, annotations |-> found]
    ELSE IF t[i] = DivOpen
    THEN ScanSpans(t, i + 1, shift + 1, out, found,
                   <<Shifted(i, shift + 1)>> \o open)
    ELSE IF t[i] = DivClose
    THEN IF open = <<>>
         THEN ScanSpans(t, i + 1, shift + 1, out, found, open)
         ELSE ScanSpans(t, i + 1, shift + 1, out,
                        Append(found, AnnotationSpan(Head(open), Shifted(i - 1, shift),
                                                     <<"lang">>, "div")),
                        Tail(open))
    ELSE Bind(SpanAnnotationAt(t, i), LAMBDA m :
        IF m.ok
        THEN ScanSpans(t, m.end + 1, shift + (m.end - i + 1) - (m.close - i - 1),
                       out \o Slice(t, i + 1, m.close - 1),
                       Append(found,
                              AnnotationSpan(Shifted(i - 1, shift),
                                             Shifted(i - 1, shift) + (m.close - i - 1),
                                             Slice(t, m.close + 2, m.end - 1),
                                             "annotation")),
                       open)
        ELSE IF /\ StartsAt(t, i, <<"*">>)
                /\ RunEnd(t, i + 1, {"*"}) > i + 1
                /\ RunEnd(t, i + 1, {"*"}) <= Len(t)
        THEN Bind(RunEnd(t, i + 1, {"*"}), LAMBDA e :
                 ScanSpans(t, e + 1, shift + 2, out \o Slice(t, i + 1, e - 1),
                           found, open))
        ELSE ScanSpans(t, i + 1, shift, Append(out, t[i]), found, open))

\* parse_spans(text)
parse_spans(t) == ScanSpans(t, 1, 0, <<>>, <<>>, <<>>)

\* parse_spans(input) is called and returns
ParseSpans ==
    /\ pc = "parse_spans"
    /\ spans' = parse_spans(input)
    /\ pc' = "done"
    /\ UNCHANGED <<config, processors, mode, input, text, idx, depth, round, prev,
                   capabilities, documentVars, loaderVars, segments, voice_blocks, splitter_text,
                   sentence_texts,
                   sentences>>

\* the structured parser and the span tracker have not been called
\* no method of a Document has been called: there is no Document
NoCall == [op |-> "none", doc |-> 0, n |-> 0]

DocumentIdle ==
    /\ documents = <<>>
    /\ call = NoCall
    /\ returned = <<>>

ParserIdle ==
    /\ spans = <<>>
    /\ segments = <<>>
    /\ voice_blocks = <<>>
    /\ splitter_text = <<>>
    /\ sentence_texts = <<>>
    /\ sentences = <<>>

(***************************************************************************)
(* capabilities.py                                                         *)
(***************************************************************************)
\* TTSCapabilities.__init__: flags F (the set of flags that are True) and the
\* extensions map.  present = FALSE stands for "no capabilities given".
TTSCapabilities(F, ext) ==
    [present      |-> TRUE,
     emphasis     |-> "emphasis" \in F,
     break_tags   |-> "break_tags" \in F,
     paragraph    |-> "paragraph" \in F,
     language     |-> "language" \in F,
     phoneme      |-> "phoneme" \in F,
     substitution |-> "substitution" \in F,
     prosody      |-> "prosody" \in F,
     prosody_volume |-> "prosody_volume" \in F /\ "prosody" \in F,
     prosody_rate   |-> "prosody_rate" \in F /\ "prosody" \in F,
     prosody_pitch  |-> "prosody_pitch" \in F /\ "prosody" \in F,
     say_as       |-> "say_as" \in F,
     audio        |-> "audio" \in F,
     mark         |-> "mark" \in F,
     extensions   |-> ext,
     sentence_tags    |-> "sentence_tags" \in F,
     heading_emphasis |-> "heading_emphasis" \in F]

AllFlags == {"emphasis", "break_tags", "paragraph", "language", "phoneme",
             "substitution", "prosody", "prosody_volume", "prosody_rate",
             "prosody_pitch", "say_as", "audio", "mark", "sentence_tags",
             "heading_emphasis"}

NoExtensions == [n \in {} |-> TRUE]

\* capabilities=None
NoCapabilities == [TTSCapabilities({}, NoExtensions) EXCEPT !.present = FALSE]

\* TTSCapabilities.supports_extension(extension_name)
supports_extension(caps, name) ==
    IF name \in DOMAIN caps.extensions THEN caps.extensions[name] ELSE FALSE

\* the "skip" list of TTSCapabilities.to_config()
CapsSkip(caps) ==
    (IF ~caps.emphasis THEN {"emphasis"} ELSE {}) \cup
    (IF ~caps.break_tags THEN {"break"} ELSE {}) \cup
    (IF ~caps.paragraph THEN {"paragraph"} ELSE {}) \cup
    (IF ~caps.mark THEN {"mark"} ELSE {}) \cup
    (IF ~caps.prosody THEN {"prosody"} ELSE {})

\* SSMD.__init__ / Document._get_converter: the user's config merged with
\* capabilities.to_config(); the user sets neither skip nor heading_levels
MakeConfig(caps, speak, pretty, sentence_tags) ==
    [skip |-> IF caps.present THEN CapsSkip(caps) ELSE {},
     capabilities |-> caps,
     heading_levels |-> IF caps.present /\ ~caps.heading_emphasis
                        THEN NoLevels ELSE DEFAULT_LEVELS,
     output_speak_tag |-> speak,
     pretty_print |-> pretty,
     auto_sentence_tags |-> sentence_tags]

\* capabilities=None: the argument was not given
None == <<"None">>

\* the preset capability definitions
ESPEAK_CAPABILITIES ==
    TTSCapabilities({"break_tags", "language", "phoneme", "prosody",
                     "prosody_volume", "prosody_rate", "prosody_pitch"},
                    NoExtensions)

PYTTSX3_CAPABILITIES ==
    TTSCapabilities({"prosody", "prosody_volume", "prosody_rate"}, NoExtensions)

GOOGLE_TTS_CAPABILITIES == TTSCapabilities(AllFlags, NoExtensions)

Name_drc == <<"d", "r", "c">>

AMAZON_POLLY_CAPABILITIES ==
    TTSCapabilities(AllFlags \ {"audio"},
                    [n \in {Name_whisper, Name_drc} |-> TRUE])

AZURE_TTS_CAPABILITIES == TTSCapabilities(AllFlags, NoExtensions)

MINIMAL_CAPABILITIES ==
    TTSCapabilities({"prosody_volume", "prosody_rate", "prosody_pitch"},
                    NoExtensions)

FULL_CAPABILITIES == TTSCapabilities(AllFlags, NoExtensions)

\* PRESETS: the preset lookup table
PRESETS ==
    <<"e", "s", "p", "e", "a", "k">> :> ESPEAK_CAPABILITIES @@
    <<"p", "y", "t", "t", "s", "x", "3">> :> PYTTSX3_CAPABILITIES @@
    <<"g", "o", "o", "g", "l", "e">> :> GOOGLE_TTS_CAPABILITIES @@
    <<"p", "o", "l", "l", "y">> :> AMAZON_POLLY_CAPABILITIES @@
    <<"a", "m", "a", "z", "o", "n">> :> AMAZON_POLLY_CAPABILITIES @@
    <<"a", "z", "u", "r", "e">> :> AZURE_TTS_CAPABILITIES @@
    <<"m", "i", "c", "r", "o", "s", "o", "f", "t">> :> AZURE_TTS_CAPABILITIES @@
    <<"m", "i", "n", "i", "m", "a", "l">> :> MINIMAL_CAPABILITIES @@
    <<"f", "u", "l", "l">> :> FULL_CAPABILITIES

\* raise ValueError(f"Unknown preset '{name}'. ...")
ValueError == [raised |-> "ValueError"]

\* get_preset(name)
get_preset(name) ==
    IF LowerSeq(name) \notin DOMAIN PRESETS
    THEN ValueError
    ELSE PRESETS[LowerSeq(name)]

(***************************************************************************)
(* processors/annotation.py                                                *)
(***************************************************************************)
\* r"\[([^\]]+)\]\(([^\)]+)\)"  tried at position i
AnnotationAt(t, i) ==
    LET j == RunEnd(t, i + 1, {"]"})
        k == RunEnd(t, j + 2, {")"})
    IN  IF /\ StartsAt(t, i, <<"[">>)
           /\ j > i + 1
           /\ StartsAt(t, j, <<"]", "(">>)
           /\ k > j + 2
           /\ k <= Len(t)
        THEN [ok |-> TRUE, start |-> i, end |-> k,
              content |-> Slice(t, i + 1, j - 1), params |-> Slice(t, j + 2, k - 1)]
        ELSE NoMatch

AnnotationSearch(t) ==
    LET S == {i \in 1..Len(t) : AnnotationAt(t, i).ok}
    IN  IF S = {} THEN NoMatch ELSE AnnotationAt(t, MinOf(S))

\* every annotation passes whatever the capabilities
AlwaysSupported(caps, ann) == TRUE

\* AnnotationProcessor._is_annotation_supported(annotation)
IsAnnotationSupported(caps, ann) ==
    IF ~caps.present THEN TRUE
    ELSE CASE ann.kind = "language"     -> caps.language
           [] ann.kind = "phoneme"      -> caps.phoneme
           [] ann.kind = "substitution" -> caps.substitution
           [] ann.kind = "say_as"       -> caps.say_as
           [] ann.kind = "audio"        -> caps.audio
           [] ann.kind = "voice"        -> TRUE
           [] ann.kind = "prosody"      -> caps.prosody
           [] ann.kind = "extension"    ->
                  supports_extension(caps, ann.extension_name)
           [] OTHER -> TRUE

\* a later annotation of a variant replaces the one already seen
CombineOverride(existing, other) == other

\* BaseAnnotation.combine / ProsodyAnnotation.combine
Combine(existing, other) ==
    IF existing.kind = "prosody" THEN ProsodyCombine(existing, other) ELSE existing

\* the loop "for part in annotation_parts" of AnnotationProcessor.result,
\* from the list anns built so far
RECURSIVE CollectAnnotations(_, _, _)
CollectAnnotations(caps, parts, anns) ==
    IF parts = <<>> THEN anns
    ELSE Bind(get_annotation(Head(parts)), LAMBDA ann :
         Bind({k \in 1..Len(anns) : anns[k].kind = ann.kind}, LAMBDA E :
             IF ann.kind = "none" \/ ~IsAnnotationSupported(caps, ann)
             THEN CollectAnnotations(caps, Tail(parts), anns)
             ELSE IF E # {}
             THEN CollectAnnotations(caps, Tail(parts),
                      [anns EXCEPT ![MinOf(E)] = Combine(@, ann)])
             ELSE CollectAnnotations(caps, Tail(parts), Append(anns, ann))))

\* one attribute of a tag: piece, value, closing quote; nothing for None
Attr(piece, value) == IF value = <<>> THEN <<>> ELSE <<piece>> \o value \o <<"\"">>

\* ProsodyAnnotation.wrap(text)
ProsodyWrap(a, t) ==
    LET v == Attr("<prosody volume=\"", a.volume)
        r == Attr(IF v = <<>> THEN "<prosody rate=\"" ELSE " rate=\"", a.rate)
        p == Attr(IF v = <<>> /\ r = <<>> THEN "<prosody pitch=\"" ELSE " pitch=\"",
                  a.pitch)
    IN  IF v \o r \o p = <<>> THEN t
        ELSE v \o r \o p \o <<">">> \o t \o <<"</prosody>">>

\* AudioAnnotation.wrap(text)
AudioWrap(a, t) ==
    <<"<audio src=\"">> \o a.url \o <<"\"">>
    \o Attr(" clipBegin=\"", a.clip_begin) \o Attr(" clipEnd=\"", a.clip_end)
    \o Attr(" speed=\"", a.speed) \o Attr(" repeatCount=\"", a.repeat_count)
    \o Attr(" soundLevel=\"", a.sound_level) \o <<">">>
    \o (IF t # <<>> THEN <<"<desc>">> \o t \o <<"</desc>">> ELSE <<>>)
    \o a.alt_text \o <<"</audio>">>

\* ExtensionAnnotation.wrap(text) with the built-in handlers
ExtensionWrap(a, t) ==
    IF a.extension_name = Name_whisper
    THEN <<"<amazon:effect name=\"whispered\">">> \o t \o <<"</amazon:effect>">>
    ELSE IF a.extension_name = Name_audio
    THEN <<"<audio src=\"">> \o t \o <<"\"", "/>">>
    ELSE t

\* VoiceAnnotation.wrap(text)
VoiceWrap(a, t) ==
    LET l == Attr("<voice language=\"", a.language)
        g == Attr(IF l = <<>> THEN "<voice gender=\"" ELSE " gender=\"", a.gender)
        v == Attr(IF l = <<>> /\ g = <<>> THEN "<voice variant=\"" ELSE " variant=\"",
                  a.variant)
    IN  IF a.name # <<>>
        THEN <<"<voice name=\"">> \o a.name \o <<"\"", ">">> \o t \o <<"</voice>">>
        ELSE IF l \o g \o v = <<>> THEN <<"<voice >">> \o t \o <<"</voice>">>
        ELSE l \o g \o v \o <<">">> \o t \o <<"</voice>">>

\* SayAsAnnotation.wrap(text)
SayAsWrap(a, t) ==
    <<"<say-as interpret-as=\"">> \o a.interpret_as \o <<"\"">>
    \o Attr(" format=\"", a.format) \o Attr(" detail=\"", a.detail)
    \o <<">">> \o t \o <<"</say-as>">>

\* annotation.wrap(text), by variant
Wrap(a, t) ==
    CASE a.kind = "audio"        -> AudioWrap(a, t)
      [] a.kind = "extension"    -> ExtensionWrap(a, t)
      [] a.kind = "voice"        -> VoiceWrap(a, t)
      [] a.kind = "say_as"       -> SayAsWrap(a, t)
      [] a.kind = "phoneme"      ->
             <<"<phoneme alphabet=\"ipa\" ph=\"">> \o a.phonemes \o <<"\"", ">">>
             \o t \o <<"</phoneme>">>
      [] a.kind = "prosody"      -> ProsodyWrap(a, t)
      [] a.kind = "substitution" ->
             <<"<sub alias=\"">> \o a.alias \o <<"\"", ">">> \o t \o <<"</sub>">>
      [] OTHER ->
             <<"<lang xml:lang=\"">> \o a.lang \o <<"\"", ">">> \o t \o <<"</lang>">>

\* the loop "for ann in annotations: result = ann.wrap(result)"
RECURSIVE WrapAll(_, _)
WrapAll(anns, t) == IF anns = <<>> THEN t ELSE WrapAll(Tail(anns), Wrap(Head(anns), t))

\* [a.strip() for a in annotations_str.split(",")]
AnnotationParts(params) ==
    LET ps == Split(params, ",") IN [k \in 1..Len(ps) |-> Strip(ps[k])]

\* the annotations AnnotationProcessor.result wraps the text in, in order
ResolveAnnotations(caps, params) ==
    IF VoiceMatches(Strip(params))
    THEN IF IsAnnotationSupported(caps, VoiceCreate(Strip(params)))
         THEN <<VoiceCreate(Strip(params))>> ELSE <<>>
    ELSE CollectAnnotations(caps, AnnotationParts(params), <<>>)

\* AnnotationProcessor.result(match)
AnnotationResult(m, caps) == WrapAll(ResolveAnnotations(caps, m.params), m.content)

(***************************************************************************)
(* processors/base.py and the overrides of the processors                  *)
(***************************************************************************)
\* regex().search(text) of the processor named p
Search(p, t) ==
    CASE p = "emphasis"   -> EmphasisSearch(t)
      [] p = "annotation" -> AnnotationSearch(t)
      [] p = "mark"       -> MarkSearch(t)
      [] p = "prosody"    -> ProsodySearch(t)
      [] p = "heading"    -> HeadingSearch(t)
      [] p = "sentence"   -> SentenceSearch(t)
      [] OTHER            -> BreakSearch(t)

\* BaseProcessor.matches(text); SentenceProcessor.matches(text)
Matches(p, t, cfg) ==
    IF p = "sentence" /\ ~cfg.auto_sentence_tags THEN FALSE ELSE Search(p, t).ok

\* result(match) of the processor named p
Result(p, t, m, cfg) ==
    CASE p = "emphasis"   -> EmphasisResult(m)
      [] p = "annotation" -> AnnotationResult(m, cfg.capabilities)
      [] p = "mark"       -> MarkResult(m)
      [] p = "prosody"    -> ProsodyResult(t, m)
      [] p = "heading"    -> HeadingResult(t, m, cfg.heading_levels)
      [] p = "sentence"   -> SentenceResult(m, cfg.auto_sentence_tags)
      [] OTHER            -> BreakResult(m)

\* BaseProcessor.substitute(text), with the overrides of ProsodyProcessor and
\* ParagraphProcessor
Substitute(p, t, cfg) ==
    IF p = "paragraph" THEN ParagraphSubstitute(t)
    ELSE IF p = "prosody" THEN ProsodySubstitute(t)
    ELSE Bind(Search(p, t), LAMBDA m :
        IF ~m.ok THEN t
        ELSE Upto(t, m.start - 1) \o Result(p, t, m, cfg) \o From(t, m.end + 1))

\* text(match) of the processor named p
Text(p, t, m) ==
    CASE p = "emphasis" -> EmphasisText(m)
      [] p = "sentence" -> Slice(t, m.start, m.end)
      [] p \in {"mark", "break"} -> <<>>
      [] OTHER -> m.content

\* is_no_content() of the processor named p
is_no_content(p) == p \in {"mark", "break"}

\* BaseProcessor.strip_ssmd(text), with the override of ParagraphProcessor
StripSsmd(p, t, cfg) ==
    IF p = "paragraph" THEN ParagraphStrip(t)
    ELSE Bind(Search(p, t), LAMBDA m :
        IF ~m.ok THEN t
        ELSE Bind(Upto(t, m.start - 1), LAMBDA pre :
             Bind(From(t, m.end + 1), LAMBDA post :
                 IF is_no_content(p) /\ EndsWith(pre, <<" ">>)
                 THEN Upto(pre, Len(pre) - 1) \o Text(p, t, m) \o post
                 ELSE IF is_no_content(p) /\ StartsAt(post, 1, <<" ">>)
                 THEN pre \o Text(p, t, m) \o Tail(post)
                 ELSE pre \o Text(p, t, m) \o post)))

(***************************************************************************)
(* processors/__init__.py and converter.py                                 *)
(***************************************************************************)
\* a list that runs the break processor before the paragraph processor
BreakBeforeParagraph ==
    <<"emphasis", "annotation", "mark", "prosody", "heading", "break",
      "paragraph", "sentence">>

\* get_all_processors(config): the names of the processors, in order
get_all_processors ==
    <<"emphasis", "annotation", "mark", "prosody", "heading", "paragraph",
      "sentence", "break">>

\* Converter._init_processors()
InitProcessors(cfg) ==
    LET keep(n) == n \notin cfg.skip IN SelectSeq(get_all_processors, keep)

\* hasattr(processor, "_process_all_at_once")
ProcessAllAtOnce(p) == p = "paragraph"

\* one rewrite by processor p: strip_ssmd when strip, substitute otherwise
Rewrite(p, t, cfg, strip) ==
    IF strip THEN StripSsmd(p, t, cfg) ELSE Substitute(p, t, cfg)

(***************************************************************************)
(* parser.py: the structured parser.  A segment is a record; its fields    *)
(* say_as, substitution, phoneme, language, prosody, audio, extension and  *)
(* voice are held in `features`, a function whose domain is the set of the *)
(* fields that are not None.  None inside an attribute record is <<"None">>.*)
(***************************************************************************)
\* BreakAttrs(time=..., strength=...)
BreakAttrs(time, strength) == [time |-> time, strength |-> strength]

\* _parse_break(modifier)
parse_break(modifier) ==
    CASE modifier = <<"n">> -> BreakAttrs(None, "none")
      [] modifier = <<"w">> -> BreakAttrs(None, "x-weak")
      [] modifier = <<"c">> -> BreakAttrs(None, "medium")
      [] modifier = <<"s">> -> BreakAttrs(None, "strong")
      [] modifier = <<"p">> -> BreakAttrs(None, "x-strong")
      [] OTHER -> IF EndsWith(modifier, <<"s">>)
                  THEN BreakAttrs(modifier, "None")
                  ELSE BreakAttrs(modifier \o <<"m", "s">>, "None")

NoFeatures == [f \in {} |-> <<>>]

\* SSMDSegment(text=text, position=position)
SSMDSegment(txt, position) ==
    [text |-> txt, emphasis |-> "False", features |-> NoFeatures,
     breaks_before |-> <<>>, breaks_after |-> <<>>,
     marks_before |-> <<>>, marks_after |-> <<>>, position |-> position]

\* seg.<name> = value
SetFeature(seg, name, value) ==
    [seg EXCEPT !.features =
        [f \in DOMAIN seg.features \cup {name} |->
            IF f = name THEN value ELSE seg.features[f]]]

\* str.split(): the words between runs of whitespace
RECURSIVE Words(_)
Words(s) ==
    Bind(LStrip(s), LAMBDA r :
        IF r = <<>> THEN <<>>
        ELSE Bind(RunEnd(r, 1, Spaces), LAMBDA k :
                 <<Upto(r, k - 1)>> \o Words(From(r, k))))

\* pat in s
Contains(s, pat) == \E i \in 1..Len(s) : StartsAt(s, i, pat)

\* first position where pat starts in s, 0 when there is none
Find(s, pat) ==
    IF Contains(s, pat) THEN MinOf({i \in 1..Len(s) : StartsAt(s, i, pat)}) ELSE 0

\* str.split(pat) for a separator of several characters
RECURSIVE SplitStr(_, _)
SplitStr(s, pat) ==
    Bind(Find(s, pat), LAMBDA k :
        IF k = 0 THEN <<s>>
        ELSE <<Upto(s, k - 1)>> \o SplitStr(From(s, k + Len(pat)), pat))

\* str.split(pat, 1)
SplitOnce(s, pat) ==
    Bind(Find(s, pat), LAMBDA k :
        IF k = 0 THEN <<s>> ELSE <<Upto(s, k - 1), From(s, k + Len(pat))>>)

\* str.strip(chars)
RECURSIVE StripChars(_, _)
StripChars(s, chars) ==
    IF s # <<>> /\ Head(s) \in chars THEN StripChars(Tail(s), chars)
    ELSE IF s # <<>> /\ s[Len(s)] \in chars THEN StripChars(Upto(s, Len(s) - 1), chars)
    ELSE s

\* re.sub(r"\s+([.!?,;:])", r"\1", s)
RECURSIVE SpaceBeforePunctuation(_)
SpaceBeforePunctuation(s) ==
    IF s = <<>> THEN <<>>
    ELSE IF ~IsSpace(Head(s)) THEN <<Head(s)>> \o SpaceBeforePunctuation(Tail(s))
    ELSE Bind(SpanEnd(s, 1, Spaces), LAMBDA e :
             IF e <= Len(s) /\ s[e] \in {".", "!", "?", ",", ";", ":"}
             THEN SpaceBeforePunctuation(From(s, e))
             ELSE Upto(s, e - 1) \o SpaceBeforePunctuation(From(s, e)))

\* the plain text between two matches: stripped, no space before punctuation
PlainText(s) == SpaceBeforePunctuation(Strip(s))

\* one alternative of combined_pattern matched: kind, first and last position
Markup(kind, start, end) == [ok |-> TRUE, kind |-> kind, start |-> start, end |-> end]

\* r"\*\*[^\*]+\*\*" tried at i: the last position, 0 when it does not match
StrongEnd(t, i) ==
    Bind(RunEnd(t, i + 2, {"*"}), LAMBDA e :
        IF StartsAt(t, i, <<"*", "*">>) /\ e > i + 2 /\ StartsAt(t, e, <<"*", "*">>)
        THEN e + 1 ELSE 0)

\* r"\*[^\*]+\*" and r"_[^_]+_" tried at i
DelimitedEnd(t, i, c) ==
    Bind(RunEnd(t, i + 1, {c}), LAMBDA e :
        IF StartsAt(t, i, <<c>>) /\ e > i + 1 /\ e <= Len(t) THEN e ELSE 0)

\* r"@(?!voice[:(])\w+" tried at i
ParserMarkEnd(t, i) ==
    IF /\ StartsAt(t, i, <<"@">>)
       /\ ~StartsAt(t, i + 1, <<"v", "o", "i", "c", "e", ":">>)
       /\ ~StartsAt(t, i + 1, <<"v", "o", "i", "c", "e", "(">>)
       /\ SpanEnd(t, i + 1, WordChars) > i + 1
    THEN SpanEnd(t, i + 1, WordChars) - 1 ELSE 0

\* combined_pattern tried at i: the first alternative that matches
CombinedAt(t, i) ==
    IF StrongEnd(t, i) > 0 THEN Markup("strong", i, StrongEnd(t, i))
    ELSE IF DelimitedEnd(t, i, "*") > 0 THEN Markup("emphasis", i, DelimitedEnd(t, i, "*"))
    ELSE IF DelimitedEnd(t, i, "_") > 0 THEN Markup("reduced", i, DelimitedEnd(t, i, "_"))
    ELSE IF AnnotationAt(t, i).ok THEN Markup("annotation", i, AnnotationAt(t, i).end)
    ELSE IF BreakAt(t, i).ok THEN Markup("break", i, BreakAt(t, i).end)
    ELSE IF ParserMarkEnd(t, i) > 0 THEN Markup("mark", i, ParserMarkEnd(t, i))
    ELSE NoMatch

\* the next match of combined_pattern.finditer(text) from position cur
CombinedSearch(t, cur) ==
    Bind({i \in cur..Len(t) : CombinedAt(t, i).ok}, LAMBDA S :
        IF S = {} THEN NoMatch ELSE CombinedAt(t, MinOf(S)))

\* the locals of _parse_text_segments
TokenizerState(segs, breaks, marks, position) ==
    [segments |-> segs, pending_breaks |-> breaks,
     pending_marks_before |-> marks, position |-> position]

\* a new segment takes the pending breaks and marks and is appended
AddSegment(st, seg) ==
    TokenizerState(
        Append(st.segments,
               [seg EXCEPT !.breaks_before = @ \o st.pending_breaks,
                           !.marks_before = IF st.pending_marks_before # <<>>
                                            THEN st.pending_marks_before ELSE @]),
        <<>>, <<>>, st.position + Len(seg.text))

\* the plain text before a match, if any is left after normalising
AddPlain(st, plain) ==
    IF plain = <<>> THEN st ELSE AddSegment(st, SSMDSegment(plain, st.position))

\* a break: onto the last segment, or pending when there is none yet
AddBreak(st, attrs) ==
    IF st.segments # <<>>
    THEN [st EXCEPT !.segments[Len(st.segments)].breaks_after = Append(@, attrs)]
    ELSE [st EXCEPT !.pending_breaks = Append(@, attrs)]

\* a mark: onto the last segment, or pending when there is none yet
AddMark(st, name) ==
    IF st.segments # <<>>
    THEN [st EXCEPT !.segments[Len(st.segments)].marks_after = Append(@, name)]
    ELSE [st EXCEPT !.pending_marks_before = Append(@, name)]

\* parts[k], or the empty string when the split has fewer parts
Part(parts, k) == IF k <= Len(parts) THEN parts[k] ELSE <<>>

\* dict[key] = value
Put(d, key, value) ==
    [x \in DOMAIN d \cup {key} |-> IF x = key THEN value ELSE d[x]]

\* dict.get(key), <<"None">> when the key is missing
Get(d, key) == IF key \in DOMAIN d THEN d[key] ELSE None

\* the value of a digit character
DigitValue(c) == CHOOSE n \in 0..9 : <<"0", "1", "2", "3", "4", "5", "6", "7", "8", "9">>[n + 1] = c

\* int(s) for a string of digits; the try/except of the callers leaves the
\* field None for anything else
RECURSIVE IntOf(_, _)
IntOf(s, acc) == IF s = <<>> THEN acc ELSE IntOf(Tail(s), 10 * acc + DigitValue(Head(s)))

ToInt(s) ==
    Bind(Strip(s), LAMBDA d :
        IF d # <<>> /\ AllIn(d, Digits) THEN <<IntOf(d, 0)>> ELSE None)

\* the value of a map, None for a missing key (map.get(key))
Mapped(v) == IF v = <<>> THEN None ELSE v

\* ProsodyAttrs(volume, rate, pitch)
ProsodyAttrs(volume, rate, pitch) == [volume |-> volume, rate |-> rate, pitch |-> pitch]

\* one "key: value" part of the loop of _parse_prosody_annotation
ProsodyPart(prosody, part) ==
    IF ":" \notin Range(part) THEN prosody
    ELSE Bind(Strip(SplitOnce(part, <<":">>)[1]), LAMBDA key :
         Bind(Strip(SplitOnce(part, <<":">>)[2]), LAMBDA value :
         Bind(StartsAt(value, 1, <<"+">>) \/ StartsAt(value, 1, <<"-">>)
                 \/ EndsWith(value, <<"%">>), LAMBDA relative :
             IF key \in {<<"v">>, <<"v", "o", "l", "u", "m", "e">>}
             THEN [prosody EXCEPT !.volume =
                      IF relative \/ EndsWith(value, <<"d", "B">>) THEN value
                      ELSE IF Len(value) = 1 /\ VOLUME_MAP(value[1]) # <<>>
                      THEN VOLUME_MAP(value[1]) ELSE value]
             ELSE IF key \in {<<"r">>, <<"r", "a", "t", "e">>}
             THEN [prosody EXCEPT !.rate =
                      IF relative THEN value
                      ELSE IF Len(value) = 1 /\ RATE_MAP(value[1]) # <<>>
                      THEN RATE_MAP(value[1]) ELSE value]
             ELSE IF key \in {<<"p">>, <<"p", "i", "t", "c", "h">>}
             THEN [prosody EXCEPT !.pitch =
                      IF relative THEN value
                      ELSE IF Len(value) = 1 /\ PITCH_MAP(value[1]) # <<>>
                      THEN PITCH_MAP(value[1]) ELSE value]
             ELSE prosody)))

RECURSIVE ProsodyParts(_, _)
ProsodyParts(prosody, parts) ==
    IF parts = <<>> THEN prosody
    ELSE ProsodyParts(ProsodyPart(prosody, Strip(Head(parts))), Tail(parts))

\* _parse_prosody_annotation(params)
parse_prosody_annotation(params) ==
    IF StartsAt(params, 1, <<"v", "r", "p", ":">>)
    THEN Bind(Strip(From(params, 5)), LAMBDA vrp :
             ProsodyAttrs(IF Len(vrp) >= 1 THEN Mapped(VOLUME_MAP(vrp[1])) ELSE None,
                          IF Len(vrp) >= 2 THEN Mapped(RATE_MAP(vrp[2])) ELSE None,
                          IF Len(vrp) >= 3 THEN Mapped(PITCH_MAP(vrp[3])) ELSE None))
    ELSE ProsodyParts(ProsodyAttrs(None, None, None), Split(params, ","))

\* VoiceAttrs(name, language, gender, variant)
VoiceAttrs(name, language, gender, variant) ==
    [name |-> name, language |-> language, gender |-> gender, variant |-> variant]

\* re.match(r"^[a-z]{2}(-[A-Z]{2})?$", s): $ also matches before a last newline
MatchesLangCode(s) ==
    \/ IsLangCode(s)
    \/ (EndsWith(s, <<"\n">>) /\ IsLangCode(Upto(s, Len(s) - 1)))

\* one part of the loop of _parse_voice_annotation; i counts from 0
VoicePart(voice, part, i) ==
    IF ":" \in Range(part)
    THEN Bind(Strip(SplitOnce(part, <<":">>)[1]), LAMBDA key :
         Bind(Strip(SplitOnce(part, <<":">>)[2]), LAMBDA value :
             IF key = <<"g", "e", "n", "d", "e", "r">>
             THEN [voice EXCEPT !.gender = value]
             ELSE IF key = <<"v", "a", "r", "i", "a", "n", "t">> /\ ToInt(value) # None
             THEN [voice EXCEPT !.variant = ToInt(value)]
             ELSE voice))
    ELSE IF i = 0
    THEN IF MatchesLangCode(part) THEN [voice EXCEPT !.language = part]
         ELSE [voice EXCEPT !.name = part]
    ELSE voice

RECURSIVE VoiceParts(_, _, _)
VoiceParts(voice, parts, i) ==
    IF i >= Len(parts) THEN voice
    ELSE VoiceParts(VoicePart(voice, Strip(parts[i + 1]), i), parts, i + 1)

\* _parse_voice_annotation(params)
parse_voice_annotation(params) ==
    IF "," \notin Range(params)
    THEN IF MatchesLangCode(Strip(params))
         THEN VoiceAttrs(None, Strip(params), None, None)
         ELSE VoiceAttrs(Strip(params), None, None, None)
    ELSE VoiceParts(VoiceAttrs(None, None, None, None), Split(params, ","), 0)

\* [a-zA-Z0-9_-]
VoiceValueChars == WordChars \cup {"-"}

\* the group of re.search(key + r"\s*(cls+)", s): <<>> when there is no match
SearchValue(s, key, cls) ==
    Bind({i \in 1..Len(s) :
             /\ StartsAt(s, i, key)
             /\ SpanEnd(s, SpanEnd(s, i + Len(key), Spaces), cls)
                    > SpanEnd(s, i + Len(key), Spaces)}, LAMBDA S :
        IF S = {} THEN <<>>
        ELSE Bind(SpanEnd(s, MinOf(S) + Len(key), Spaces), LAMBDA b :
                 Slice(s, b, SpanEnd(s, b, cls) - 1)))

\* _parse_voice_params(params_str)
parse_voice_params(s) ==
    Bind(Upto(s, SpanEnd(s, 1, VoiceValueChars) - 1), LAMBDA voice_value :
    Bind(LowerSeq(SearchValue(s, <<"g", "e", "n", "d", "e", "r", ":">>,
                              LowerLetters \cup UpperLetters)), LAMBDA gender :
    Bind(SearchValue(s, <<"v", "a", "r", "i", "a", "n", "t", ":">>, Digits),
         LAMBDA variant :
    Bind(\/ Contains(s, <<"g", "e", "n", "d", "e", "r", ":">>)
         \/ Contains(s, <<"v", "a", "r", "i", "a", "n", "t", ":">>)
         \/ MatchesLangCode(voice_value), LAMBDA asLanguage :
        VoiceAttrs(IF voice_value # <<>> /\ ~asLanguage THEN voice_value ELSE None,
                   IF voice_value # <<>> /\ asLanguage THEN voice_value ELSE None,
                   IF gender \in {<<"m", "a", "l", "e">>, <<"f", "e", "m", "a", "l", "e">>,
                                  <<"n", "e", "u", "t", "r", "a", "l">>}
                   THEN gender ELSE None,
                   IF variant # <<>> THEN <<IntOf(variant, 0)>> ELSE None)))))

\* the while loop over parts[i] (i counts from 1 here) that fills attrs
RECURSIVE AudioAttrLoop(_, _, _)
AudioAttrLoop(parts, i, attrs) ==
    IF i > Len(parts) THEN attrs
    ELSE IF parts[i] = <<"a", "l", "t">> THEN AudioAttrLoop(parts, i + 1, attrs)
    ELSE IF ":" \in Range(parts[i])
    THEN Bind(Strip(SplitOnce(parts[i], <<":">>)[1]), LAMBDA key :
         Bind(Strip(SplitOnce(parts[i], <<":">>)[2]), LAMBDA val :
             IF i + 1 <= Len(parts) /\ ":" \notin Range(Part(parts, i + 1))
             THEN AudioAttrLoop(parts, i + 2,
                                Put(attrs, key, val \o <<" ">> \o parts[i + 1]))
             ELSE AudioAttrLoop(parts, i + 1, Put(attrs, key, val))))
    ELSE AudioAttrLoop(parts, i + 1, attrs)

\* AudioAttrs(src=url) and the attributes set from attrs
AudioAttrs(url, alt, attrs) ==
    Bind(Split(Get(attrs, <<"c", "l", "i", "p">>), "-"), LAMBDA clip_range :
        [src |-> url,
         alt_text |-> IF alt THEN <<"a", "l", "t">> ELSE None,
         clip_begin |-> IF <<"c", "l", "i", "p">> \in DOMAIN attrs /\ Len(clip_range) = 2
                        THEN Strip(clip_range[1]) ELSE None,
         clip_end |-> IF <<"c", "l", "i", "p">> \in DOMAIN attrs /\ Len(clip_range) = 2
                      THEN Strip(clip_range[2]) ELSE None,
         speed |-> Get(attrs, <<"s", "p", "e", "e", "d">>),
         repeat_count |-> IF <<"r", "e", "p", "e", "a", "t">> \in DOMAIN attrs
                          THEN ToInt(attrs[<<"r", "e", "p", "e", "a", "t">>]) ELSE None,
         repeat_dur |-> Get(attrs, <<"r", "e", "p", "e", "a", "t", "D", "u", "r">>),
         sound_level |-> Get(attrs, <<"l", "e", "v", "e", "l">>)])

\* the audio branch: params.split(), the url, the alt marker, the attributes
parse_audio(params) ==
    Bind(Words(params), LAMBDA parts :
        AudioAttrs(IF parts # <<>> THEN parts[1] ELSE params,
                   \E k \in 2..Len(parts) : parts[k] = <<"a", "l", "t">>,
                   AudioAttrLoop(parts, 2, [x \in {} |-> <<>>])))

\* the extensions the audio branch looks for
ParserAudioExtensions ==
    {<<".", "m", "p", "3">>, <<".", "o", "g", "g">>, <<".", "w", "a", "v">>,
     <<".", "m", "4", "a">>, <<".", "f", "l", "a", "c">>}

\* the condition of the audio branch
IsAudioParams(params) ==
    \/ StartsAt(params, 1, <<"h", "t", "t", "p", ":", "/", "/">>)
    \/ StartsAt(params, 1, <<"h", "t", "t", "p", "s", ":", "/", "/">>)
    \/ StartsAt(params, 1, <<"f", "i", "l", "e", ":", "/", "/">>)
    \/ /\ "." \in Range(params)
       /\ \E ext \in ParserAudioExtensions : EndsWith(Part(Words(params), 1), ext)

\* SayAsAttrs(interpret_as, format) from the parts of a say-as param
SayAsAttrs(parts) ==
    [interpret_as |-> Strip(Part(parts, 1)),
     format |-> IF Len(parts) > 1 /\ Contains(parts[2], <<"f", "o", "r", "m", "a", "t", ":">>)
                THEN StripChars(Strip(SplitStr(parts[2],
                                   <<"f", "o", "r", "m", "a", "t", ":">>)[2]), {"\"", "'"})
                ELSE None]

\* PhonemeAttrs(ph, alphabet) from what follows "ph:" or "ipa:"
PhonemeAttrs(rest) ==
    IF Contains(rest, <<",", " ", "a", "l", "p", "h", "a", "b", "e", "t", ":">>)
    THEN Bind(SplitStr(rest, <<",", " ", "a", "l", "p", "h", "a", "b", "e", "t", ":">>),
              LAMBDA parts : [ph |-> Strip(parts[1]), alphabet |-> Strip(parts[2])])
    ELSE IF Contains(rest, <<",", "a", "l", "p", "h", "a", "b", "e", "t", ":">>)
    THEN Bind(SplitStr(rest, <<",", "a", "l", "p", "h", "a", "b", "e", "t", ":">>),
              LAMBDA parts : [ph |-> Strip(parts[1]), alphabet |-> Strip(parts[2])])
    ELSE [ph |-> rest, alphabet |-> <<"i", "p", "a">>]

\* a branch of the if/elif chain: its condition, the field it sets, the value
Branch(cond, field, value) == [cond |-> cond, field |-> field, value |-> value]

\* the branches of _parse_annotation_segment in the order of the chain
AnnotationBranches(params) ==
    << Branch(StartsAt(params, 1, <<"s", "u", "b", ":">>), "substitution",
              Strip(From(params, 5))),
       Branch(StartsAt(params, 1, <<"l", "a", "n", "g", ":">>), "language",
              Strip(From(params, 6))),
       Branch(StartsAt(params, 1, <<"s", "a", "y", "-", "a", "s", ":">>), "say_as",
              SayAsAttrs(Split(Strip(From(params, 8)), ","))),
       Branch(StartsAt(params, 1, <<"a", "s", ":">>), "say_as",
              SayAsAttrs(Split(From(params, 4), ","))),
       Branch(StartsAt(params, 1, <<"p", "h", ":">>)
                 \/ StartsAt(params, 1, <<"i", "p", "a", ":">>), "phoneme",
              PhonemeAttrs(Strip(Part(SplitOnce(params, <<":">>), 2)))),
       Branch(\/ StartsAt(params, 1, <<"r", "a", "t", "e", ":">>)
              \/ StartsAt(params, 1, <<"p", "i", "t", "c", "h", ":">>)
              \/ StartsAt(params, 1, <<"v", "o", "l", "u", "m", "e", ":">>), "prosody",
              parse_prosody_annotation(params)),
       Branch(\/ StartsAt(params, 1, <<"v", ":">>) \/ StartsAt(params, 1, <<"r", ":">>)
              \/ StartsAt(params, 1, <<"p", ":">>)
              \/ StartsAt(params, 1, <<"v", "r", "p", ":">>), "prosody",
              parse_prosody_annotation(params)),
       Branch(StartsAt(params, 1, <<"e", "x", "t", ":">>), "extension",
              Strip(From(params, 5))),
       Branch(StartsAt(params, 1, <<"v", "o", "i", "c", "e", ":">>), "voice",
              parse_voice_annotation(Strip(From(params, 7)))),
       Branch(MatchesLangCode(params), "language", params),
       Branch(IsAudioParams(params), "audio", parse_audio(params)) >>

\* every branch whose condition holds is taken (a chain of plain ifs)
TakenAll(hits) == hits

\* of the branches whose condition holds, the chain takes the first only
Taken(hits) == IF hits = {} THEN {} ELSE {MinOf(hits)}

\* the fields the branches in `taken` set, a later branch overwriting
RECURSIVE ApplyBranches(_, _, _, _)
ApplyBranches(seg, branches, taken, k) ==
    IF k > Len(branches) THEN seg
    ELSE ApplyBranches(IF k \in taken
                       THEN SetFeature(seg, branches[k].field, branches[k].value)
                       ELSE seg,
                       branches, taken, k + 1)

\* _parse_annotation_segment(text, params, position)
parse_annotation_segment(txt, params, position) ==
    Bind(AnnotationBranches(params), LAMBDA branches :
        ApplyBranches(SSMDSegment(txt, position), branches,
                      Taken({k \in 1..Len(branches) : branches[k].cond}), 1))

\* the branch of the loop of _parse_text_segments for the markup m
AddMarkup(st, t, m) ==
    CASE m.kind = "break" ->
           AddBreak(st, parse_break(Slice(t, m.start + 3, m.end)))
      [] m.kind = "mark" ->
           AddMark(st, Slice(t, m.start + 1, m.end))
      [] m.kind = "strong" ->
           AddSegment(st, [SSMDSegment(Slice(t, m.start + 2, m.end - 2), st.position)
                              EXCEPT !.emphasis = "strong"])
      [] m.kind = "reduced" ->
           AddSegment(st, [SSMDSegment(Slice(t, m.start + 1, m.end - 1), st.position)
                              EXCEPT !.emphasis = "reduced"])
      [] m.kind = "emphasis" ->
           AddSegment(st, [SSMDSegment(Slice(t, m.start + 1, m.end - 1), st.position)
                              EXCEPT !.emphasis = "True"])
      [] m.kind = "annotation" ->
           Bind(AnnotationAt(t, m.start), LAMBDA a :
               AddSegment(st, parse_annotation_segment(a.content, a.params, st.position)))

\* after the loop: the text after the last markup, and the segment of the
\* whole text when there is no segment
FinishSegments(t, cur, st) ==
    Bind(IF cur <= Len(t) THEN AddPlain(st, PlainText(From(t, cur))) ELSE st,
         LAMBDA last :
        IF last.segments = <<>> /\ Strip(t) # <<>>
        THEN AddSegment(last, SSMDSegment(Strip(t), 0)).segments
        ELSE last.segments)

\* the loop over combined_pattern.finditer(text) from position cur
RECURSIVE TokenizeFrom(_, _, _)
TokenizeFrom(t, cur, st) ==
    Bind(CombinedSearch(t, cur), LAMBDA m :
        IF ~m.ok THEN FinishSegments(t, cur, st)
        ELSE TokenizeFrom(t, m.end + 1,
                          AddMarkup(AddPlain(st, PlainText(Slice(t, cur, m.start - 1))),
                                    t, m)))

\* _parse_text_segments(text, capabilities): capabilities is not read
parse_text_segments(t, caps) ==
    TokenizeFrom(t, 1, TokenizerState(<<>>, <<>>, <<>>, 0))

\* r"\[([^\]]+)\]\(voice:\s*([^)]+)\)" tried at i
VoiceAnnotationAt(t, i) ==
    Bind(RunEnd(t, i + 1, {"]"}), LAMBDA j :
    Bind(SpanEnd(t, j + 8, Spaces), LAMBDA b :
    Bind(RunEnd(t, b, {")"}), LAMBDA k :
        IF /\ StartsAt(t, i, <<"[">>)
           /\ j > i + 1
           /\ StartsAt(t, j, <<"]", "(", "v", "o", "i", "c", "e", ":">>)
           /\ k <= Len(t)
           /\ (k > b \/ b > j + 8)
        THEN [ok |-> TRUE, start |-> i, end |-> k, content |-> Slice(t, i + 1, j - 1),
              params |-> IF k > b THEN Slice(t, b, k - 1) ELSE <<t[b - 1]>>]
        ELSE NoMatch)))

\* the next match of voice_pattern.finditer(text) from position cur
VoiceAnnotationSearch(t, cur) ==
    Bind({i \in cur..Len(t) : VoiceAnnotationAt(t, i).ok}, LAMBDA S :
        IF S = {} THEN NoMatch ELSE VoiceAnnotationAt(t, MinOf(S)))

\* the text between two voice annotations, tokenized if it is not blank
TextSegments(t, caps) ==
    IF Strip(t) # <<>> THEN parse_text_segments(t, caps) ELSE <<>>

\* the loop of parse_segments over the voice annotations, from position cur,
\* and what follows it
RECURSIVE VoiceLoop(_, _, _, _)
VoiceLoop(t, cur, segs, caps) ==
    Bind(VoiceAnnotationSearch(t, cur), LAMBDA m :
        IF m.ok
        THEN VoiceLoop(t, m.end + 1,
                       segs \o TextSegments(Slice(t, cur, m.start - 1), caps)
                            \o <<SetFeature(SSMDSegment(m.content, m.start - 1),
                                            "voice", parse_voice_params(m.params))>>,
                       caps)
        ELSE Bind(segs \o TextSegments(From(t, cur), caps), LAMBDA all :
                 IF all = <<>> /\ Strip(t) # <<>>
                 THEN <<SSMDSegment(Strip(t), 0)>> ELSE all))

\* parse_segments(ssmd_text, capabilities=caps) with caps resolved
parse_segments(t, caps) == VoiceLoop(t, 1, <<>>, caps)

\* the capabilities argument resolved: None, a preset, or ValueError
ResolveCapabilities(arg) ==
    IF arg = None THEN NoCapabilities ELSE get_preset(arg)

\* parse_segments(input, capabilities=capabilities) is called and returns;
\* then SSMD(capabilities=capabilities).to_ssml(input) runs on the same text
ParseSegments ==
    /\ pc = "parse_segments"
    /\ Bind(ResolveCapabilities(capabilities), LAMBDA caps :
           IF caps = ValueError
           THEN /\ pc' = "ValueError"
                /\ UNCHANGED segments
           ELSE /\ segments' = parse_segments(input, caps)
                /\ pc' = "escape")
    /\ UNCHANGED <<config, processors, mode, input, text, idx, depth, round, prev,
                   capabilities, documentVars, loaderVars, spans, voice_blocks, splitter_text,
                   sentence_texts,
                   sentences>>


\* the end of (?:\s*,\s*(?:gender|variant):\s*[a-zA-Z0-9]+)* tried at i: the
\* position after the last group that matches
RECURSIVE VoiceAttrGroupsEnd(_, _)
VoiceAttrGroupsEnd(t, i) ==
    Bind(SpanEnd(t, i, Spaces), LAMBDA c :
    Bind(SpanEnd(t, c + 1, Spaces), LAMBDA k :
    Bind(IF StartsAt(t, k, <<"g", "e", "n", "d", "e", "r", ":">>) THEN k + 7
         ELSE IF StartsAt(t, k, <<"v", "a", "r", "i", "a", "n", "t", ":">>) THEN k + 8
         ELSE 0, LAMBDA v :
        IF StartsAt(t, c, <<",">>) /\ v > 0
           /\ SpanEnd(t, SpanEnd(t, v, Spaces), Alnum) > SpanEnd(t, v, Spaces)
        THEN VoiceAttrGroupsEnd(t, SpanEnd(t, SpanEnd(t, v, Spaces), Alnum))
        ELSE i)))

\* r"^@voice(?::\s*|\()([a-zA-Z0-9_-]+(?:...)*)\)?\s*\n" (MULTILINE) tried at i
VoiceDirectiveAt(t, i) ==
    Bind(IF StartsAt(t, i + 6, <<":">>) THEN SpanEnd(t, i + 7, Spaces)
         ELSE IF StartsAt(t, i + 6, <<"(">>) THEN i + 7 ELSE 0, LAMBDA a :
    Bind(SpanEnd(t, a, VoiceValueChars), LAMBDA b :
    Bind(VoiceAttrGroupsEnd(t, b), LAMBDA c :
    Bind(IF StartsAt(t, c, <<")">>) THEN c + 1 ELSE c, LAMBDA d :
    Bind({k \in d..(SpanEnd(t, d, Spaces) - 1) : t[k] = "\n"}, LAMBDA nl :
        IF /\ (i = 1 \/ (i > 1 /\ i <= Len(t) + 1 /\ t[i - 1] = "\n"))
           /\ StartsAt(t, i, <<"@", "v", "o", "i", "c", "e">>)
           /\ a > 0 /\ b > a /\ nl # {}
        THEN [ok |-> TRUE, start |-> i, end |-> MaxOf(nl), params |-> Slice(t, a, c - 1)]
        ELSE NoMatch)))))

VoiceDirectiveSearch(t, cur) ==
    Bind({i \in cur..Len(t) : VoiceDirectiveAt(t, i).ok}, LAMBDA S :
        IF S = {} THEN NoMatch ELSE VoiceDirectiveAt(t, MinOf(S)))

\* a (voice, text) block, if the text is not blank
Block(voice, t) ==
    IF Strip(t) # <<>> THEN <<[voice |-> voice, text |-> Strip(t)]>> ELSE <<>>

\* the loop of parse_voice_blocks from position cur, and what follows it
RECURSIVE VoiceBlocksFrom(_, _, _, _)
VoiceBlocksFrom(t, cur, current_voice, blocks) ==
    Bind(VoiceDirectiveSearch(t, cur), LAMBDA m :
        IF m.ok
        THEN VoiceBlocksFrom(t, m.end + 1, parse_voice_params(m.params),
                             blocks \o Block(current_voice, Slice(t, cur, m.start - 1)))
        ELSE Bind(blocks \o Block(current_voice, From(t, cur)), LAMBDA all :
                 IF all = <<>> THEN Block(None, t) ELSE all))

\* parse_voice_blocks(ssmd_text)
parse_voice_blocks(t) == VoiceBlocksFrom(t, 1, None, <<>>)

\* where split_text may end a sentence of t: after ., !, ? or : (the call
\* passes split_on_colon=True) before whitespace, and after a blank line
SplitCandidates(t) ==
    {k \in 1..(Len(t) - 1) :
        \/ t[k] \in {".", "!", "?", ":"} /\ IsSpace(t[k + 1])
        \/ StartsAt(t, k - 1, <<"\n", "\n">>)}

\* the phrasplit segments of t for the sentence ends B: the text, the number
\* of the sentence and the number of the paragraph of each
RECURSIVE SplitAt(_, _, _, _)
SplitAt(t, B, from, n) ==
    Bind(IF {k \in B : k >= from} = {} THEN Len(t) ELSE MinOf({k \in B : k >= from}),
         LAMBDA e :
        <<[text |-> Slice(t, from, e), sentence |-> n,
           paragraph |-> Cardinality({k \in 2..(from - 1) :
                                         StartsAt(t, k - 1, <<"\n", "\n">>)
                                         /\ ~StartsAt(t, k - 2, <<"\n", "\n">>)})]>>
        \o (IF e >= Len(t) THEN <<>> ELSE SplitAt(t, B, e + 1, n + 1)))

\* what the external splitter may return for t
SplitOutcomes(t) ==
    IF t = <<>> THEN {<<>>}
    ELSE {SplitAt(t, B, 1, 0) : B \in SUBSET SplitCandidates(t)}

\* the loop of _split_sentences that joins the segments of a sentence; last
\* is the segment before k (<<>> at the start)
RECURSIVE GroupSentences(_, _, _, _, _)
GroupSentences(segs, k, current, last, out) ==
    IF k > Len(segs)
    THEN IF Strip(current) # <<>> THEN Append(out, current) ELSE out
    ELSE IF Strip(segs[k].text) = <<>> THEN GroupSentences(segs, k + 1, current, last, out)
    ELSE Bind(last # <<>> /\ segs[k].paragraph # last[1].paragraph, LAMBDA paragraph_changed :
         IF paragraph_changed \/ (last # <<>> /\ segs[k].sentence # last[1].sentence)
         THEN GroupSentences(segs, k + 1, Strip(segs[k].text), <<segs[k]>>,
                  IF Strip(current) # <<>>
                  THEN Append(out, IF paragraph_changed
                                   THEN current \o <<"\n", "\n">> ELSE current)
                  ELSE out)
         ELSE GroupSentences(segs, k + 1, current \o Strip(segs[k].text),
                             <<segs[k]>>, out))

\* SSMDSentence(voice, segments, is_paragraph_end)
SSMDSentence(voice, segs, is_para_end) ==
    [voice |-> voice, segments |-> segs, is_paragraph_end |-> is_para_end]

\* step 4 of parse_sentences for the sentence texts of one block
RECURSIVE SentencesOf(_, _, _)
SentencesOf(texts, voice, caps) ==
    IF texts = <<>> THEN <<>>
    ELSE (IF RStrip(Head(texts)) = <<>> THEN <<>>
          ELSE <<SSMDSentence(voice, parse_segments(RStrip(Head(texts)), caps),
                              EndsWith(Head(texts), <<"\n", "\n">>))>>)
         \o SentencesOf(Tail(texts), voice, caps)

\* parse_sentences begins (include_default_voice and sentence_detection at
\* their defaults): step 1, the voice blocks
VoiceBlocks ==
    /\ pc = "parse_sentences"
    /\ voice_blocks' = parse_voice_blocks(input)
    /\ pc' = IF parse_voice_blocks(input) = <<>> THEN "parsed" ELSE "split"
    /\ idx' = 1
    /\ UNCHANGED <<config, processors, mode, input, text, depth, round, prev,
                   capabilities, documentVars, loaderVars, spans, segments, splitter_text,
                   sentence_texts, sentences>>

\* _split_sentences hands the text of the block to phrasplit.split_text
CallSplitter ==
    /\ pc = "split"
    /\ splitter_text' = voice_blocks[idx].text
    /\ pc' = "splitting"
    /\ UNCHANGED <<config, processors, mode, input, text, idx, depth, round, prev,
                   capabilities, documentVars, loaderVars, spans, segments, voice_blocks,
                   sentence_texts, sentences>>

\* split_text returns; the sentences of the block are joined and tokenized
\* (parse_segments raises for an unknown preset name)
SplitterReturns ==
    /\ pc = "splitting"
    /\ \E outcome \in SplitOutcomes(splitter_text) :
          Bind(SelectSeq(GroupSentences(outcome, 1, <<>>, <<>>, <<>>),
                         LAMBDA s : Strip(s) # <<>>), LAMBDA texts :
              /\ sentence_texts' = texts
              /\ IF ResolveCapabilities(capabilities) = ValueError
                    /\ \E k \in DOMAIN texts : RStrip(texts[k]) # <<>>
                 THEN pc' = "ValueError" /\ UNCHANGED <<idx, sentences>>
                 ELSE /\ sentences' = sentences \o
                             SentencesOf(texts, voice_blocks[idx].voice,
                                         ResolveCapabilities(capabilities))
                      /\ idx' = idx + 1
                      /\ pc' = IF idx = Len(voice_blocks) THEN "parsed" ELSE "split")
    /\ UNCHANGED <<config, processors, mode, input, text, depth, round, prev,
                   capabilities, documentVars, loaderVars, spans, segments, voice_blocks,
                   splitter_text>>

(***************************************************************************)
(* Bounds of the model                                                     *)
(***************************************************************************)
\* the number of nested calls of _process_recursively the interpreter allows
\* (sys.getrecursionlimit(), 1000 by default, less the callers' frames),
\* scaled down
RecursionLimit == 5

\* the number of fragments an input text is made of
MaxFragments == 2

\* the number of copies of one fragment in the inputs of SpecDeep
MaxCopies == 6

\* the number of capability flags turned off together
MaxDisabled == 1

\* all concatenations of at most n fragments of F
Texts(F, n) == UNION {{Concat(q) : q \in [1..k -> F]} : k \in 0..n}

\* k copies of the text f
RECURSIVE Copies(_, _)
Copies(f, k) == IF k = 0 THEN <<>> ELSE f \o Copies(f, k - 1)

(***************************************************************************)
(* The converter as a state machine: one call of convert or strip on a     *)
(* Converter(config), and a second call after the first has returned.      *)
(***************************************************************************)
\* A's flags and extensions are all supported by B
CapsLeq(A, B) ==
    /\ A.present /\ B.present
    /\ \A f \in AllFlags : A[f] => B[f]
    /\ \A n \in DOMAIN A.extensions :
          A.extensions[n] => (n \in DOMAIN B.extensions /\ B.extensions[n])

\* result = escape_xml(ssmd_text), and the for loop reaches its first
\* processor (converter.py 55 and 83)
Escape ==
    /\ pc = "escape"
    /\ text' = escape_xml(text)
    /\ idx' = 1
    /\ depth' = 1
    /\ pc' = IF processors = <<>> THEN "unescape" ELSE "process"
    /\ UNCHANGED <<config, processors, mode, input, round, prev>>
    /\ UNCHANGED aux

\* one invocation of _process_recursively(processor, text, strip): it
\* returns (and the for loop moves on), or calls itself on the rewritten text
ProcessRecursively ==
    /\ pc = "process"
    /\ LET p      == processors[idx]
           strip  == mode = "strip"
           return(t) ==
               /\ text' = t
               /\ idx' = idx + 1
               /\ depth' = 1
               /\ pc' = IF idx = Len(processors) THEN "unescape" ELSE "process"
       IN  Bind(Rewrite(p, text, config, strip), LAMBDA result :
               IF ProcessAllAtOnce(p) THEN return(result)
               ELSE IF Matches(p, text, config) /\ result # text
               THEN IF depth >= RecursionLimit
                    THEN /\ pc' = "RecursionError"
                         /\ UNCHANGED <<text, idx, depth>>
                    ELSE /\ text' = result
                         /\ depth' = depth + 1
                         /\ UNCHANGED <<idx, pc>>
               ELSE return(text))
    /\ UNCHANGED <<config, processors, mode, input, round, prev>>
    /\ UNCHANGED aux

\* unescape_xml(result); strip returns it (converter.py 62 and 88)
Unescape ==
    /\ pc = "unescape"
    /\ text' = unescape_xml(text)
    /\ pc' = IF mode = "strip" THEN "done" ELSE "speak"
    /\ UNCHANGED <<config, processors, mode, input, idx, depth, round, prev>>
    /\ UNCHANGED aux

\* step 4 of convert: the <speak> wrap if configured
SpeakWrap ==
    /\ pc = "speak"
    /\ text' = IF config.output_speak_tag
               THEN <<"<speak>">> \o text \o <<"</speak>">> ELSE text
    /\ pc' = "pretty"
    /\ UNCHANGED <<config, processors, mode, input, idx, depth, round, prev>>
    /\ UNCHANGED aux

(***************************************************************************)
(* utils.format_xml: minidom.parseString(xml_text).toprettyxml("  ").      *)
(* The texts of the model hold no double quote and no '&name;' of their    *)
(* own, and a raw < of the input never opens a balanced element.           *)
(***************************************************************************)
\* the end tag of the element an opening piece starts
CloseOf(c) ==
    CASE c \in {"<emphasis>", "<emphasis level=\"strong\">",
                "<emphasis level=\"moderate\">", "<emphasis level=\"reduced\">"}
              -> "</emphasis>"
      [] c \in {"<prosody volume=\"", "<prosody rate=\"", "<prosody pitch=\""}
              -> "</prosody>"
      [] c \in {"<voice >", "<voice name=\"", "<voice language=\"",
                "<voice gender=\"", "<voice variant=\""} -> "</voice>"
      [] c = "<lang xml:lang=\"" -> "</lang>"
      [] c = "<sub alias=\"" -> "</sub>"
      [] c = "<say-as interpret-as=\"" -> "</say-as>"
      [] c = "<phoneme alphabet=\"ipa\" ph=\"" -> "</phoneme>"
      [] c = "<audio src=\"" -> "</audio>"
      [] c = "<desc>" -> "</desc>"
      [] c = "<p>" -> "</p>"
      [] c = "<s>" -> "</s>"
      [] c = "<speak>" -> "</speak>"
      [] c = "<mark name=\"" -> "</mark>"
      [] c = "<amazon:effect name=\"whispered\">" -> "</amazon:effect>"
      [] OTHER -> "</break>"

\* the pieces that are a whole start tag, an empty-element tag, an end tag
StartPieces == {"<emphasis>", "<emphasis level=\"strong\">",
                "<emphasis level=\"moderate\">", "<emphasis level=\"reduced\">",
                "<desc>", "<p>", "<s>", "<speak>", "<voice >"}

VoidPieces == ClosedAttrPieces \ (StartPieces \cup
                  {"<amazon:effect name=\"whispered\">", "<?xml version=\"1.0\" ?>"})

EndPieces == PlainPieces \ (StartPieces \cup {"/>"})

\* the pieces that continue a start tag with a further attribute
MoreAttrPieces == {c \in OpenAttrPieces : ~HasLt(c)}

\* a start tag as toprettyxml writes it, with content and without
WithContent(c) == IF c = "<voice >" THEN "<voice>" ELSE c

Emptied(c) ==
    CASE c = "<p>" -> "<p/>" [] c = "<s>" -> "<s/>" [] c = "<speak>" -> "<speak/>"
      [] c = "<desc>" -> "<desc/>" [] c = "<voice >" -> "<voice/>"
      [] c = "<emphasis>" -> "<emphasis/>"
      [] c = "<emphasis level=\"strong\">" -> "<emphasis level=\"strong\"/>"
      [] c = "<emphasis level=\"moderate\">" -> "<emphasis level=\"moderate\"/>"
      [] OTHER -> "<emphasis level=\"reduced\"/>"

\* character data as the writer escapes it, in content and in an attribute
\* value (where the parser has normalised a newline to a space)
EscData(d) ==
    [k \in 1..Len(d) |-> CASE d[k] = ">" -> "&gt;" [] d[k] = "\"" -> "&quot;"
                           [] OTHER -> d[k]]

EscAttr(d) ==
    [k \in 1..Len(d) |-> CASE d[k] = ">" -> "&gt;" [] d[k] = "\n" -> " "
                           [] OTHER -> d[k]]

\* not well-formed
NoParse == [ok |-> FALSE]

\* the attributes of a start tag from the opening piece at i: the tokens of
\* the tag as written back (without its end), where the tag ends, and
\* whether it is an empty-element tag
RECURSIVE ParseAttrs(_, _)
ParseAttrs(t, i) ==
    LET q == RunEnd(t, i + 1, {"\""})
        v == Slice(t, i + 1, q - 1)
        head == <<t[i]>> \o EscAttr(v) \o <<"\"">>
        more == ParseAttrs(t, q + 1)
    IN  IF q >= Len(t) \/ \E k \in 1..Len(v) : v[k] \in {"<", "&"} \cup Pieces
        THEN NoParse
        ELSE IF t[q + 1] = ">"
        THEN [ok |-> TRUE, open |-> head, last |-> q + 1, empty |-> FALSE]
        ELSE IF t[q + 1] = "/>"
        THEN [ok |-> TRUE, open |-> head, last |-> q + 1, empty |-> TRUE]
        ELSE IF t[q + 1] \in MoreAttrPieces /\ more.ok
        THEN [more EXCEPT !.open = head \o @]
        ELSE NoParse

\* the nodes from position i up to the end tag that closes their parent
\* (or the end of the text), and the position of that end tag
RECURSIVE ParseKids(_, _)
ParseKids(t, i) ==
    LET elem(start, form, kids) ==
            [kind |-> "elem", start |-> start, form |-> form, kids |-> kids,
             data |-> <<>>]
        \* the node n, then the nodes from position j on
        then(n, j) == LET rest == ParseKids(t, j)
                      IN  IF rest.ok THEN [rest EXCEPT !.kids = <<n>> \o @]
                          ELSE NoParse
        \* an element with content: start tag ending at position j - 1
        content(start, form, j) ==
            LET sub == ParseKids(t, j)
            IN  IF sub.ok /\ sub.pos <= Len(t) /\ t[sub.pos] = CloseOf(start[1])
                THEN then(elem(start, form, sub.kids), sub.pos + 1)
                ELSE NoParse
        a == ParseAttrs(t, i)
        j == MinOf({k \in i..Len(t) : HasLt(t[k]) \/ t[k] = "&"} \cup {Len(t) + 1})
    IN  IF i > Len(t) \/ t[i] \in EndPieces
        THEN [ok |-> TRUE, kids |-> <<>>, pos |-> i]
        ELSE IF t[i] \in VoidPieces THEN then(elem(<<t[i]>>, "void", <<>>), i + 1)
        ELSE IF t[i] \in StartPieces THEN content(<<t[i]>>, "plain", i + 1)
        ELSE IF t[i] \in OpenAttrPieces \ MoreAttrPieces
        THEN IF ~a.ok THEN NoParse
             ELSE IF a.empty THEN then(elem(a.open, "attr", <<>>), a.last + 1)
             ELSE content(a.open, "attr", a.last + 1)
        ELSE IF j = i THEN NoParse
        ELSE then([kind |-> "text", start |-> <<>>, form |-> "text",
                   kids |-> <<>>, data |-> Slice(t, i, j - 1)], j)

\* indent * depth
Indent(n) == [k \in 1..(2 * n) |-> " "]

\* Node.writexml(writer, indent, "  ", "\n") of Element and Text
RECURSIVE WriteNode(_, _)
WriteNode(n, ind) ==
    LET RECURSIVE WriteKids(_)
        WriteKids(kids) ==
            IF kids = <<>> THEN <<>>
            ELSE WriteNode(Head(kids), ind + 1) \o WriteKids(Tail(kids))
        inside == IF Len(n.kids) = 1 /\ n.kids[1].kind = "text"
                  THEN EscData(n.kids[1].data)
                  ELSE <<"\n">> \o WriteKids(n.kids) \o Indent(ind)
    IN  IF n.kind = "text" THEN Indent(ind) \o EscData(n.data) \o <<"\n">>
        ELSE IF n.form = "void" THEN Indent(ind) \o n.start \o <<"\n">>
        ELSE IF n.kids = <<>>
        THEN Indent(ind)
             \o (IF n.form = "plain" THEN <<Emptied(n.start[1])>>
                 ELSE n.start \o <<"/>">>)
             \o <<"\n">>
        ELSE Indent(ind)
             \o (IF n.form = "plain" THEN <<WithContent(n.start[1])>>
                 ELSE n.start \o <<">">>)
             \o inside \o <<CloseOf(n.start[1]), "\n">>

\* format_xml(xml_text, pretty=True): the text as it is if it does not parse
format_xml(t) ==
    LET r == ParseKids(t, 1)
        E == {k \in 1..Len(r.kids) : r.kids[k].kind = "elem"}
    IN  IF /\ r.ok
           /\ r.pos = Len(t) + 1
           /\ Cardinality(E) = 1
           /\ \A k \in 1..Len(r.kids) :
                 k \notin E => AllIn(r.kids[k].data, Spaces)
        THEN <<"<?xml version=\"1.0\" ?>", "\n">>
             \o WriteNode(r.kids[CHOOSE k \in E : TRUE], 0)
        ELSE t

\* step 5 of convert: the pretty print if configured; convert returns
PrettyPrint ==
    /\ pc = "pretty"
    /\ text' = IF config.pretty_print THEN format_xml(text) ELSE text
    /\ pc' = "done"
    /\ UNCHANGED <<config, processors, mode, input, idx, depth, round, prev>>
    /\ UNCHANGED aux

(***************************************************************************)
(* The configurations and the input texts of the model                     *)
(***************************************************************************)
\* the flags a capability set of the model may turn off
Disable == {"emphasis", "break_tags", "mark", "prosody", "paragraph",
            "heading_emphasis", "language", "phoneme", "substitution",
            "say_as", "audio"}

\* the extension maps of the model: none given, and whisper marked false
ExtMaps == {NoExtensions, Name_whisper :> FALSE}

\* TTSCapabilities(...) with at most MaxDisabled flags off, and no capabilities
CapSets ==
    {NoCapabilities} \cup
    {TTSCapabilities(AllFlags \ D, e) :
        D \in {X \in SUBSET Disable : Cardinality(X) <= MaxDisabled}, e \in ExtMaps}

Configs ==
    {MakeConfig(c, sp, pp, st) : c \in CapSets, sp \in BOOLEAN, pp \in BOOLEAN,
                                 st \in BOOLEAN}

\* the user's options of a config
Options(cfg) == <<cfg.output_speak_tag, cfg.pretty_print, cfg.auto_sentence_tags>>

\* the config of the defaults: Converter({})
DefaultConfig == MakeConfig(NoCapabilities, TRUE, FALSE, FALSE)

\* a call of convert or strip on a Converter(cfg) begins
Start(cfg, m, t) ==
    /\ config = cfg
    /\ processors = InitProcessors(cfg)
    /\ mode = m
    /\ input = t
    /\ text = t
    /\ pc = "escape"
    /\ idx = 1
    /\ depth = 1
    /\ round = 1
    /\ prev = <<>>
    /\ capabilities = None
    /\ LoaderIdle
    /\ ParserIdle
    /\ DocumentIdle

\* after the first call has returned, a second one: strip on the text strip
\* returned, or convert of the same text with the capabilities of the first
\* call and one more flag on
Again ==
    /\ pc = "done"
    /\ round = 1
    /\ \E c \in Configs :
          /\ IF mode = "strip" THEN c = config
             ELSE /\ CapsLeq(config.capabilities, c.capabilities)
                  /\ c.capabilities.extensions = config.capabilities.extensions
                  /\ Cardinality({f \in AllFlags :
                         c.capabilities[f] # config.capabilities[f]}) = 1
                  /\ Options(c) = Options(config)
          /\ config' = c
          /\ processors' = InitProcessors(c)
    /\ input' = IF mode = "strip" THEN text ELSE input
    /\ text' = input'
    /\ prev' = text
    /\ round' = 2
    /\ pc' = "escape"
    /\ idx' = 1
    /\ depth' = 1
    /\ UNCHANGED mode
    /\ UNCHANGED aux

Next == Escape \/ ProcessRecursively \/ Unescape \/ SpeakWrap \/ PrettyPrint \/ Again

\* SSMD.__init__(config, capabilities) with a preset name: get_preset raises,
\* or the preset's to_config() is merged into the user's config and the
\* Converter is built
Construct ==
    /\ pc = "init"
    /\ Bind(get_preset(capabilities), LAMBDA caps :
           IF caps = ValueError
           THEN /\ pc' = "ValueError"
                /\ UNCHANGED <<config, processors>>
           ELSE Bind(MakeConfig(caps, config.output_speak_tag,
                                config.pretty_print, config.auto_sentence_tags),
                     LAMBDA cfg :
                /\ config' = cfg
                /\ processors' = InitProcessors(cfg)
                /\ pc' = "escape"))
    /\ UNCHANGED <<mode, input, text, idx, depth, round, prev, capabilities>>
    /\ UNCHANGED <<loaderVars, parserVars, documentVars>>

\* the fragments of the input texts of Spec
Fragments == {
    <<"a">>,
    <<" ">>,
    <<"*", "a", "*">>,
    <<"_", "a", "_">>,
    <<"+", "b", "+">>,
    <<"@", "m">>,
    <<".", ".", ".", "s">>,
    <<"\n", "\n">>,
    <<"#", " ">>,
    <<"[", "a", "]", "(", "f", "r", ")">>,
    <<"<", "b", ">">>}

\* the configs of Spec: every capability set without an extension map under
\* the default options, and every option under the default capabilities
SpecConfigs ==
    {c \in Configs :
        /\ c.capabilities.extensions = NoExtensions
        /\ (c.capabilities.present => Options(c) = Options(DefaultConfig))}

Init ==
    \E cfg \in SpecConfigs, m \in {"convert", "strip"},
       t \in Texts(Fragments, MaxFragments) : Start(cfg, m, t)

Spec == Init /\ [][Next]_vars

\* the fragments the input texts of SpecDeep repeat
DeepFragments == {
    <<"*", "a", "*", " ">>,
    <<"@", "m", " ">>,
    <<"+", "b", "+", " ">>,
    <<".", ".", ".", "s">>,
    <<"[", "a", "]", "(", "f", "r", ")">>,
    <<"#", " ", "a", "\n">>,
    <<"a", " ">>}

\* the configs of SpecDeep: the defaults, and emphasis off
DeepConfigs ==
    {DefaultConfig,
     MakeConfig(TTSCapabilities(AllFlags \ {"emphasis"}, NoExtensions),
                TRUE, FALSE, FALSE)}

InitDeep ==
    \E cfg \in DeepConfigs, m \in {"convert", "strip"}, f \in DeepFragments,
       k \in 0..MaxCopies : Start(cfg, m, Copies(f, k))

\* texts with many matches of one processor
SpecDeep == InitDeep /\ [][Next]_vars

\* the number of params of a bracket group in the inputs of SpecAnnot
MaxParams == 3

\* the params of the bracket groups of SpecAnnot: one of every variant that
\* has a capability flag, and the built-in extensions
ParamFragments == {
    <<"f", "r">>,
    <<"v", ":", " ", "5">>,
    <<"s", "u", "b", ":", " ", "b">>,
    <<"a", "s", ":", " ", "d", "a", "t", "e">>,
    <<"p", "h", ":", " ", "d", "I", "C">>,
    <<"e", "x", "t", ":", " ", "a", "u", "d", "i", "o">>,
    <<"e", "x", "t", ":", " ", "w", "h", "i", "s", "p", "e", "r">>,
    <<"b", ".", "m", "p", "3">>}

\* the params of the bracket groups of SpecGroup: as before, and a second
\* language and further prosody params
GroupFragments == ParamFragments \cup {
    <<"d", "e">>,
    <<"v", ":", " ", "1">>,
    <<"r", ":", " ", "2">>}

\* ", ".join(ps)
RECURSIVE JoinParams(_)
JoinParams(ps) ==
    IF ps = <<>> THEN <<>>
    ELSE IF Len(ps) = 1 THEN ps[1]
    ELSE ps[1] \o <<",", " ">> \o JoinParams(Tail(ps))

\* the bracket groups [7](p1, ..., pk) with at most MaxParams params of F
Groups(F) ==
    {<<"[", "7", "]", "(">> \o JoinParams(q) \o <<")">> :
        q \in UNION {[1..k -> F] : k \in 1..MaxParams}}

\* the flags of the annotation variants
AnnotationFlags == {"language", "phoneme", "substitution", "say_as", "audio",
                    "prosody"}

\* the configs of SpecAnnot: the default options, and capability sets that
\* turn off flags of annotation variants only, with an extension map only
\* when every flag is on
AnnotConfigs ==
    {c \in Configs :
        /\ Options(c) = Options(DefaultConfig)
        /\ \A f \in AllFlags \ AnnotationFlags :
              c.capabilities.present => c.capabilities[f]
        /\ c.capabilities.extensions # NoExtensions =>
              \A f \in AnnotationFlags : c.capabilities[f]}

InitAnnot ==
    \E cfg \in AnnotConfigs, t \in Groups(ParamFragments) : Start(cfg, "convert", t)

\* one bracket group under the capability sets
SpecAnnot == InitAnnot /\ [][Next]_vars

\* the configs of SpecGroup: the defaults, and substitution off
GroupConfigs ==
    {DefaultConfig,
     MakeConfig(TTSCapabilities(AllFlags \ {"substitution"}, NoExtensions),
                TRUE, FALSE, FALSE)}

InitGroup ==
    \E cfg \in GroupConfigs, t \in Groups(GroupFragments) : Start(cfg, "convert", t)

\* one bracket group with params of the same variant
SpecGroup == InitGroup /\ [][Next]_vars

\* the preset names of SpecPreset: known ones in lower, mixed and upper
\* case, and unknown ones (a misspelling, the empty name)
PresetNames == {
    <<"f", "u", "l", "l">>,
    <<"F", "u", "l", "l">>,
    <<"P", "O", "L", "L", "Y">>,
    <<"e", "s", "p", "e", "a", "k">>,
    <<"m", "i", "n", "i", "m", "a", "l">>,
    <<"p", "y", "t", "t", "s", "x", "3">>,
    <<"f", "u", "l", "l", "l">>,
    <<"x">>,
    <<>>}

\* SSMD(config, capabilities=name) is about to be constructed, and then
\* to_ssml(t) or strip(t) is called on it
InitPreset ==
    \E n \in PresetNames, m \in {"convert", "strip"}, f \in DeepFragments,
       k \in 0..MaxCopies, pp \in BOOLEAN :
        /\ config = MakeConfig(NoCapabilities, TRUE, pp, FALSE)
        /\ processors = <<>>
        /\ mode = m
        /\ input = Copies(f, k)
        /\ text = input
        /\ pc = "init"
        /\ idx = 1
        /\ depth = 1
        /\ round = 1
        /\ prev = <<>>
        /\ capabilities = n
        /\ LoaderIdle
        /\ ParserIdle
        /\ DocumentIdle

NextPreset ==
    Construct \/ Escape \/ ProcessRecursively \/ Unescape \/ SpeakWrap \/ PrettyPrint

\* a converter built from a preset name, and one call on it
SpecPreset == InitPreset /\ [][NextPreset]_vars

\* the class is freshly imported and every thread makes its first call of
\* _xsampa_to_ipa, which calls _load_xsampa_table
InitLoader ==
    /\ \E f \in TableFiles : table_file = f
    /\ XSAMPA_TABLE = NoTable
    /\ tables = [t \in Threads |-> EmptyDict]
    /\ threads = [t \in Threads |->
                    [pc |-> "check", table |-> NoTable, line |-> 1,
                     result |-> NoTable, calls |-> 1]]
    /\ config = DefaultConfig
    /\ processors = InitProcessors(DefaultConfig)
    /\ mode = "convert"
    /\ input = <<>>
    /\ text = <<>>
    /\ pc = "loader"
    /\ idx = 1
    /\ depth = 1
    /\ round = 1
    /\ prev = <<>>
    /\ capabilities = None
    /\ ParserIdle
    /\ DocumentIdle

NextLoader ==
    \E t \in Threads :
        /\ \/ Check(t) \/ ReturnShared(t) \/ Alloc(t) \/ Exists(t) \/ Read(t)
           \/ Publish(t) \/ Return(t) \/ CallAgain(t)
        /\ UNCHANGED <<config, processors, mode, input, text, pc, idx, depth,
                       round, prev, capabilities, parserVars,
                       documentVars>>

\* concurrent calls of the X-SAMPA table loader
SpecLoader == InitLoader /\ [][NextLoader]_vars

\* the number of fragments of an input of SpecSpans
MaxSpanFragments == 3

\* the fragments of the inputs of SpecSpans: words, annotated words (the same
\* words), emphasis, and directive blocks with and without an annotation
SpanFragments == {
    <<"a">>,
    <<" ">>,
    <<"a", "b">>,
    <<"[", "a", "]", "{", "l", "}">>,
    <<"[", "a", "b", "]", "{", "p", "=", "x", "}">>,
    <<"*", "a", "*">>,
    <<DivOpen, "a", DivClose>>,
    <<DivOpen, "[", "a", "]", "{", "l", "}", " ", "a", DivClose>>}

InitSpans ==
    /\ \E t \in Texts(SpanFragments, MaxSpanFragments) : input = t
    /\ config = DefaultConfig
    /\ processors = InitProcessors(DefaultConfig)
    /\ mode = "parse_spans"
    /\ text = <<>>
    /\ pc = "parse_spans"
    /\ idx = 1
    /\ depth = 1
    /\ round = 1
    /\ prev = <<>>
    /\ capabilities = None
    /\ LoaderIdle
    /\ ParserIdle
    /\ DocumentIdle

NextSpans == ParseSpans

\* one call of parse_spans
SpecSpans == InitSpans /\ [][NextSpans]_vars

\* the longest input of SpecParse, in fragments
MaxParseFragments == 2

\* the fragments of the inputs of SpecParse: words, a sentence end, emphasis,
\* a mark, a break, bracket groups with one and with several params, and a
\* voice directive line
ParseFragments == {
    <<"a">>,
    <<" ">>,
    <<"a", ".", " ">>,
    <<"*", "a", "*">>,
    <<"@", "m">>,
    <<".", ".", ".", "s">>,
    <<"[", "b", "]", "(", "v", "o", "i", "c", "e", ":", " ", "x", ")">>,
    <<"[", "7", "]", "(", "f", "r", ")">>,
    <<"[", "7", "]", "(", "f", "r", ",", " ", "v", ":", " ", "5", ")">>,
    <<"[", "7", "]", "(", "s", "u", "b", ":", " ", "b", ")">>,
    <<"[", "7", "]", "(", "s", "u", "b", ":", "b", ".", "m", "p", "3", ")">>,
    <<"[", "7", "]", "(", "e", "x", "t", ":", " ", "w", "h", "i", "s", "p", "e", "r", ")">>,
    <<"@", "v", "o", "i", "c", "e", ":", " ", "x", "\n">>}

\* the capabilities arguments of SpecParse: none, two presets, an unknown name
ParseCapabilities == {
    None,
    <<"m", "i", "n", "i", "m", "a", "l">>,
    <<"e", "s", "p", "e", "a", "k">>,
    <<"n", "o", "p", "e">>}

\* parse_segments(t, capabilities=c) followed by
\* SSMD(capabilities=c).to_ssml(t), or parse_sentences(t, capabilities=c)
InitParse ==
    \E c \in ParseCapabilities, m \in {"parse_segments", "parse_sentences"},
       t \in Texts(ParseFragments, MaxParseFragments) :
        /\ config = IF ResolveCapabilities(c) = ValueError THEN DefaultConfig
                    ELSE MakeConfig(ResolveCapabilities(c), TRUE, FALSE, FALSE)
        /\ processors = InitProcessors(config)
        /\ mode = m
        /\ input = t
        /\ text = t
        /\ pc = m
        /\ idx = 1
        /\ depth = 1
        /\ round = 1
        /\ prev = <<>>
        /\ capabilities = c
        /\ LoaderIdle
        /\ ParserIdle
        /\ DocumentIdle

NextParse ==
    \/ ParseSegments
    \/ VoiceBlocks
    \/ CallSplitter
    \/ SplitterReturns
    \/ Escape
    \/ ProcessRecursively
    \/ Unescape
    \/ SpeakWrap
    \/ PrettyPrint

\* one call of the structured parser, and convert of the same text
SpecParse == InitParse /\ [][NextParse]_vars

\* the longest input of SpecProsody, in fragments
MaxProsodyFragments == 2

\* the fragments of the inputs of SpecProsody: words, a shorthand of every
\* prosody kind, a marker without a mapping, prosody annotations, and groups
\* whose attribute value holds one and two shorthands
ProsodyFragments == {
    <<"a">>,
    <<" ">>,
    <<"+", "b", "+">>,
    <<">", "b", ">">>,
    <<"^", "b", "^">>,
    <<"~", "~", "b", "~", "~">>,
    <<"[", "a", "]", "(", "v", ":", " ", "5", ")">>,
    <<"[", "a", "]", "(", "r", ":", " ", "2", ",", " ", "p", ":", " ", "4", ")">>,
    <<"[", "a", "]", "(", "s", "u", "b", ":", " ", "+", "b", "+", ")">>,
    <<"[", "a", "]", "(", "s", "u", "b", ":", " ", "+", "b", "+", " ", "+", "c", "+", ")">>}

\* the configs of SpecProsody: the defaults, and prosody on with one of its
\* sub-flags off
ProsodyConfigs ==
    {DefaultConfig} \cup
    {MakeConfig(TTSCapabilities(AllFlags \ {f}, NoExtensions), TRUE, FALSE, FALSE) :
        f \in {"prosody_volume", "prosody_rate", "prosody_pitch"}}

InitProsody ==
    \E cfg \in ProsodyConfigs, m \in {"convert", "strip"},
       t \in Texts(ProsodyFragments, MaxProsodyFragments) : Start(cfg, m, t)

\* one call of convert or strip
NextCall == Escape \/ ProcessRecursively \/ Unescape \/ SpeakWrap \/ PrettyPrint

\* one call on the inputs with prosody shorthand and prosody annotations
SpecProsody == InitProsody /\ [][NextCall]_vars

\* the longest input of SpecLines, in fragments
MaxLineFragments == 3

\* the fragments of the inputs of SpecLines: words, line ends and blank
\* lines, headings of a level with and without effects, prosody shorthand
\* with and without a mapping, and inline markup
LineFragments == {
    <<"a">>,
    <<" ">>,
    <<"\n">>,
    <<"\n", "\n">>,
    <<"#", " ", "b">>,
    <<"#", "#", "#", "#", " ", "a">>,
    <<"+", "b", "+">>,
    <<"~", "~", "b", "~", "~">>,
    <<"*", "a", "*">>,
    <<"@", "m">>}

\* the configs of SpecLines: the defaults, and sentence tags on
LineConfigs ==
    {MakeConfig(NoCapabilities, TRUE, FALSE, st) : st \in BOOLEAN}

InitLines ==
    \E cfg \in LineConfigs, m \in {"convert", "strip"},
       t \in Texts(LineFragments, MaxLineFragments) : Start(cfg, m, t)

\* one call on the inputs with several lines and paragraphs
SpecLines == InitLines /\ [][NextCall]_vars

\* the params of the bracket groups of SpecSayAs: the say-as param, its
\* format and detail, and a language
SayAsFragments == {
    <<"a", "s", ":", " ", "d", "a", "t", "e">>,
    <<"f", "o", "r", "m", "a", "t", ":", " ", "b">>,
    <<"d", "e", "t", "a", "i", "l", ":", " ", "2">>,
    <<"f", "r">>}

\* the configs of SpecSayAs: the defaults, and say_as off
SayAsConfigs ==
    {DefaultConfig,
     MakeConfig(TTSCapabilities(AllFlags \ {"say_as"}, NoExtensions),
                TRUE, FALSE, FALSE)}

InitSayAs ==
    \E cfg \in SayAsConfigs, m \in {"convert", "strip"}, t \in Groups(SayAsFragments) :
        Start(cfg, m, t)

\* one bracket group with say-as params
SpecSayAs == InitSayAs /\ [][NextCall]_vars

(***************************************************************************)
(* document.py: Document, the fragment list with its separators and the    *)
(* caches of the converter, of the SSML and of the sentences.  A Document  *)
(* is an object on the heap: `documents` maps its id to its fields, and    *)
(* a reference to a Document is its id.                                    *)
(***************************************************************************)
\* the capabilities argument: None, a preset name or a TTSCapabilities
NoneGiven == [kind |-> "None"]

PresetName(name) == [kind |-> "str", name |-> name]

CapabilitiesObject(caps) == [kind |-> "TTSCapabilities", caps |-> caps]

\* self._converter is None
NoConverter == [made |-> FALSE]

\* what a method that raises leaves in place of its value: the name of the
\* exception, which is no text
Raised(name) == <<name>>

\* raised by a list index out of range
IndexError == Raised("IndexError")

\* raised by the recursion of _process_recursively
RecursionError == Raised("RecursionError")

\* Document.__init__(content, config, capabilities)
Document(content, cfg, caps) ==
    [fragments        |-> IF content # <<>> THEN <<content>> ELSE <<>>,
     separators       |-> <<>>,
     config           |-> cfg,
     capabilities     |-> caps,
     converter        |-> NoConverter,
     cached_ssml      |-> None,
     cached_sentences |-> None]

\* Document._invalidate_cache()
InvalidateCache(doc) ==
    [doc EXCEPT !.cached_ssml = None, !.cached_sentences = None]

\* the body add, add_sentence and add_paragraph share: text appended after
\* the separator sep
AppendFragment(doc, t, sep) ==
    IF t = <<>> THEN doc
    ELSE IF doc.fragments = <<>>
    THEN [InvalidateCache(doc) EXCEPT !.fragments = Append(@, t)]
    ELSE [InvalidateCache(doc) EXCEPT !.separators = Append(@, sep),
                                      !.fragments = Append(@, t)]

\* Document.add(text)
add(doc, t) == AppendFragment(doc, t, <<>>)

\* Document.add_sentence(text)
add_sentence(doc, t) == AppendFragment(doc, t, <<"\n">>)

\* Document.add_paragraph(text)
add_paragraph(doc, t) == AppendFragment(doc, t, <<"\n", "\n">>)

\* list.insert(i, x) on the list l with the 0-based index i: a negative
\* index counts from the end, and the index is clipped to the list
ListInsert(l, i, x) ==
    Bind(IF i < 0 THEN (IF i + Len(l) < 0 THEN 0 ELSE i + Len(l))
         ELSE (IF i > Len(l) THEN Len(l) ELSE i), LAMBDA k :
        Upto(l, k) \o <<x>> \o From(l, k + 1))

\* Document.insert(index, text, separator)
insert(doc, index, t, separator) ==
    IF t = <<>> THEN doc
    ELSE IF doc.fragments = <<>>
    THEN [InvalidateCache(doc) EXCEPT !.fragments = Append(@, t)]
    ELSE IF index = 0
    THEN [InvalidateCache(doc) EXCEPT
              !.fragments = ListInsert(@, 0, t),
              !.separators = ListInsert(@, 0, separator)]
    ELSE IF index >= Len(doc.fragments)
    THEN [InvalidateCache(doc) EXCEPT !.separators = Append(@, separator),
                                      !.fragments = Append(@, t)]
    ELSE [InvalidateCache(doc) EXCEPT
              !.fragments = ListInsert(@, index, t),
              !.separators = ListInsert(@, index, separator)]

\* Document.clear()
clear(doc) ==
    [InvalidateCache(doc) EXCEPT !.fragments = <<>>, !.separators = <<>>]

\* s.count(sub): the occurrences of sub in s that do not overlap
RECURSIVE StrCount(_, _)
StrCount(s, sub) ==
    IF sub = <<>> THEN Len(s) + 1
    ELSE Bind({i \in 1..Len(s) : StartsAt(s, i, sub)}, LAMBDA I :
         IF I = {} THEN 0
         ELSE 1 + StrCount(From(s, MinOf(I) + Len(sub)), sub))

\* s.replace(old, new, count): the first count occurrences, all of them
\* when count is negative; an empty old matches before every character and
\* at the end
RECURSIVE StrReplace(_, _, _, _)
StrReplace(s, old, new, count) ==
    IF count = 0 THEN s
    ELSE IF old = <<>>
    THEN IF s = <<>> THEN new
         ELSE new \o <<Head(s)>>
              \o (IF count = 1 THEN Tail(s)
                  ELSE StrReplace(Tail(s), old, new, count - 1))
    ELSE Bind({i \in 1..Len(s) : StartsAt(s, i, old)}, LAMBDA I :
         IF I = {} THEN s
         ELSE Upto(s, MinOf(I) - 1) \o new
              \o StrReplace(From(s, MinOf(I) + Len(old)), old, new, count - 1))

\* the loop of Document.replace from fragment i on, `made` replacements
\* counted so far
RECURSIVE ReplaceFrom(_, _, _, _, _, _)
ReplaceFrom(fs, i, old, new, count, made) ==
    IF i > Len(fs) THEN fs
    ELSE IF count = -1
    THEN ReplaceFrom([fs EXCEPT ![i] = StrReplace(@, old, new, -1)],
                     i + 1, old, new, count, made)
    ELSE IF count - made <= 0 THEN fs
    ELSE Bind(StrReplace(fs[i], old, new, count - made), LAMBDA f :
         ReplaceFrom([fs EXCEPT ![i] = f], i + 1, old, new, count,
                     made + StrCount(f, new) - StrCount(fs[i], new)))

\* the loop of replace alone, the caches left as they are
ReplaceKeepsCache(doc, old, new, count) ==
    [doc EXCEPT !.fragments = ReplaceFrom(@, 1, old, new, count, 0)]

\* Document.replace(old, new, count)
replace(doc, old, new, count) ==
    [InvalidateCache(doc) EXCEPT
        !.fragments = ReplaceFrom(@, 1, old, new, count, 0)]

\* the statements of Document.merge(other, separator) on the heap D, self
\* being the Document d and other the Document o: each statement reads
\* other's lists as the statements before it have left them
MergeInvalidated(D, d) == [D EXCEPT ![d] = InvalidateCache(@)]

MergeCopied(D, d, o) ==
    [D EXCEPT ![d].fragments = D[o].fragments, ![d].separators = D[o].separators]

MergeSeparator(D, d, separator) ==
    [D EXCEPT ![d].separators = Append(@, separator)]

MergeFragments(D, d, o) == [D EXCEPT ![d].fragments = @ \o D[o].fragments]

MergeSeparators(D, d, o) == [D EXCEPT ![d].separators = @ \o D[o].separators]

\* Document.merge(other, separator)
merge(D, d, o, separator) ==
    IF D[o].fragments = <<>> THEN D
    ELSE IF D[d].fragments = <<>>
    THEN MergeCopied(MergeInvalidated(D, d), d, o)
    ELSE MergeSeparators(
             MergeFragments(
                 MergeSeparator(MergeInvalidated(D, d), d, separator), d, o),
             d, o)

\* the loop of the ssmd property: result += separator + fragments[i + 1]
\* for the separators from the i-th on
RECURSIVE JoinFragments(_, _, _)
JoinFragments(doc, i, result) ==
    IF i > Len(doc.separators) THEN result
    ELSE IF i + 1 > Len(doc.fragments) THEN IndexError
    ELSE JoinFragments(doc, i + 1, result \o doc.separators[i] \o doc.fragments[i + 1])

\* Document.ssmd
ssmd(doc) ==
    IF doc.fragments = <<>> THEN <<>>
    ELSE IF Len(doc.fragments) = 1 THEN doc.fragments[1]
    ELSE JoinFragments(doc, 1, doc.fragments[1])

\* the capabilities _get_converter merges into the config
DocumentCapabilities(doc) ==
    IF doc.capabilities.kind = "None" THEN NoCapabilities
    ELSE IF doc.capabilities.kind = "str" THEN get_preset(doc.capabilities.name)
    ELSE doc.capabilities.caps

\* the config _get_converter hands to Converter(config): the user's config
\* with the skip list and the keys of caps.to_config()
ConverterConfig(doc) ==
    MakeConfig(DocumentCapabilities(doc), doc.config.output_speak_tag,
               doc.config.pretty_print, doc.config.auto_sentence_tags)

\* Document._get_converter(): the Document after the call
GetConverter(doc) ==
    IF doc.converter.made \/ DocumentCapabilities(doc) = ValueError THEN doc
    ELSE [doc EXCEPT !.converter = [made |-> TRUE, config |-> ConverterConfig(doc)]]

\* re.findall(open + "(.*?)" + close, t, re.DOTALL) for the tags open and
\* close: the contents of the elements, from the left, without overlap
RECURSIVE FindAll(_, _, _)
FindAll(t, open, close) ==
    Bind(RunEnd(t, 1, {open}), LAMBDA i :
    Bind(RunEnd(t, i + 1, {close}), LAMBDA j :
        IF j > Len(t) THEN <<>>
        ELSE <<Slice(t, i + 1, j - 1)>> \o FindAll(From(t, j + 1), open, close)))

\* utils.extract_sentences(ssml): the <s> elements, else the <p> elements,
\* else the text without its <speak> tags
extract_sentences(ssml) ==
    IF FindAll(ssml, "<s>", "</s>") # <<>> THEN FindAll(ssml, "<s>", "</s>")
    ELSE IF FindAll(ssml, "<p>", "</p>") # <<>> THEN FindAll(ssml, "<p>", "</p>")
    ELSE Bind(Strip(SelectSeq(ssml, LAMBDA x : x \notin {"<speak>", "</speak>"})),
              LAMBDA clean : IF clean = <<>> THEN <<>> ELSE <<clean>>)

\* _process_recursively(processor, text, strip=False) as a whole, entered
\* at the nesting depth d: the text it returns, or RecursionError
RECURSIVE process_recursively(_, _, _, _)
process_recursively(p, t, cfg, d) ==
    Bind(Rewrite(p, t, cfg, FALSE), LAMBDA result :
        IF ProcessAllAtOnce(p) THEN result
        ELSE IF Matches(p, t, cfg) /\ result # t
        THEN IF d >= RecursionLimit THEN RecursionError
             ELSE process_recursively(p, result, cfg, d + 1)
        ELSE t)

\* the for loop of convert over the first k processors of ps
RECURSIVE ProcessorLoop(_, _, _, _)
ProcessorLoop(ps, k, t, cfg) ==
    IF k = 0 THEN t
    ELSE Bind(ProcessorLoop(ps, k - 1, t, cfg), LAMBDA r :
         IF r = RecursionError THEN r ELSE process_recursively(ps[k], r, cfg, 1))

\* Converter(cfg).convert(t) as a whole: the SSML, or RecursionError
convert(cfg, t) ==
    Bind(ProcessorLoop(InitProcessors(cfg), Len(InitProcessors(cfg)),
                       escape_xml(t), cfg), LAMBDA r :
        IF r = RecursionError THEN r
        ELSE Bind(IF cfg.output_speak_tag
                  THEN <<"<speak>">> \o unescape_xml(r) \o <<"</speak>">>
                  ELSE unescape_xml(r), LAMBDA w :
             IF cfg.pretty_print THEN format_xml(w) ELSE w))

\* the number of Document objects
MaxDocuments == 2

\* the number of calls of Document methods and setters in one behaviour
MaxOperations == 3

DocumentIds == 1..MaxDocuments

\* the Document whose methods are called; the others are arguments of merge
Self == {1}

\* the texts handed to the Document methods: the empty text, a word, and a
\* word with emphasis
DocumentTexts == {<<>>, <<"a">>, <<"*", "a", "*">>}

\* a text with more emphasis than the recursion of the converter takes
DeepText == Copies(<<"*", "a", "*", " ">>, RecursionLimit + 1)

\* the config dicts assigned to Document.config: {}, and the options
\* output_speak_tag off and auto_sentence_tags on
UserConfig(speak, sentence_tags) ==
    [output_speak_tag |-> speak, pretty_print |-> FALSE,
     auto_sentence_tags |-> sentence_tags]

DocumentConfigs ==
    {UserConfig(TRUE, FALSE), UserConfig(FALSE, FALSE), UserConfig(TRUE, TRUE)}

\* the values assigned to Document.capabilities: None, a preset name, an
\* unknown preset name, and a TTSCapabilities without emphasis
DocumentCapabilitySet ==
    {NoneGiven,
     PresetName(<<"e", "s", "p", "e", "a", "k">>),
     PresetName(<<"x">>),
     CapabilitiesObject(TTSCapabilities(AllFlags \ {"emphasis"}, NoExtensions))}

\* the index arguments of insert
InsertIndexes == {-1, 0, 1, 2}

\* the (old, new, count) arguments of replace
ReplaceArguments ==
    {<<<<"a">>, <<"b">>, -1>>, <<<<"a">>, <<>>, -1>>, <<<<"a">>, <<"b">>, 1>>,
     <<<<>>, <<"b">>, -1>>}

\* the number of characters of the longest content a Document is given
MaxCharacters == 40

\* the number of characters of the texts of the list l
RECURSIVE TotalLength(_)
TotalLength(l) == IF l = <<>> THEN 0 ELSE Len(Head(l)) + TotalLength(Tail(l))

\* the Documents of the heap D are within the size the model follows
WithinSize(D) ==
    \A d \in DOMAIN D :
        TotalLength(D[d].fragments) + TotalLength(D[d].separators) <= MaxCharacters

\* a method of a Document may be called: none is running, and the behaviour
\* has calls left
MayCall == pc = "document" /\ call.n < MaxOperations

\* the method op of Document d has returned (or raised) value, the heap
\* being D; the converter was not run.  A returned Document is <<its id>>,
\* a returned number <<the number>>
Returns(op, d, D, value) ==
    /\ WithinSize(D)
    /\ documents' = D
    /\ returned' = [op |-> op, doc |-> d, value |-> value]
    /\ call' = [call EXCEPT !.n = @ + 1]
    /\ UNCHANGED <<config, processors, mode, input, text, pc, idx, depth, round,
                   prev, capabilities, loaderVars, parserVars>>

\* the method op of Document d calls converter.convert(ssmd) on the
\* converter the Document holds, the heap being D
Converts(op, d, D) ==
    /\ documents' = D
    /\ call' = [op |-> op, doc |-> d, n |-> call.n + 1]
    /\ config' = D[d].converter.config
    /\ processors' = InitProcessors(D[d].converter.config)
    /\ mode' = "convert"
    /\ input' = ssmd(D[d])
    /\ text' = ssmd(D[d])
    /\ pc' = "escape"
    /\ idx' = 1
    /\ depth' = 1
    /\ UNCHANGED <<returned, round, prev, capabilities, loaderVars, parserVars>>

\* doc.add(text)
Add ==
    /\ MayCall
    /\ \E d \in Self, t \in DocumentTexts :
          Returns("add", d, [documents EXCEPT ![d] = add(@, t)], <<d>>)

\* doc.add_sentence(text)
AddSentence ==
    /\ MayCall
    /\ \E d \in Self, t \in DocumentTexts :
          Returns("add_sentence", d, [documents EXCEPT ![d] = add_sentence(@, t)], <<d>>)

\* doc.add_paragraph(text)
AddParagraph ==
    /\ MayCall
    /\ \E d \in Self, t \in DocumentTexts :
          Returns("add_paragraph", d, [documents EXCEPT ![d] = add_paragraph(@, t)], <<d>>)

\* doc.insert(index, text, separator)
Insert ==
    /\ MayCall
    /\ \E d \in Self, i \in InsertIndexes, t \in {<<>>, <<"a">>},
          separator \in {<<"\n">>} :
          Returns("insert", d, [documents EXCEPT ![d] = insert(@, i, t, separator)], <<d>>)

\* doc.merge(other), other being any Document, doc itself included
Merge ==
    /\ MayCall
    /\ \E d \in Self, o \in DocumentIds :
          Returns("merge", d, merge(documents, d, o, <<"\n", "\n">>), <<d>>)

\* doc.clear()
Clear ==
    /\ MayCall
    /\ \E d \in Self :
          Returns("clear", d, [documents EXCEPT ![d] = clear(@)], <<d>>)

\* doc.replace(old, new, count)
ReplaceCall ==
    /\ MayCall
    /\ \E d \in Self, a \in ReplaceArguments :
          Returns("replace", d,
                  [documents EXCEPT ![d] = replace(@, a[1], a[2], a[3])], <<d>>)

\* doc.config = value
SetConfig ==
    /\ MayCall
    /\ \E d \in Self, value \in DocumentConfigs :
          Returns("config", d,
                  [documents EXCEPT ![d] =
                      InvalidateCache([@ EXCEPT !.config = value,
                                                !.converter = NoConverter])],
                  None)

\* doc.capabilities = value
SetCapabilities ==
    /\ MayCall
    /\ \E d \in Self, value \in DocumentCapabilitySet :
          Returns("capabilities", d,
                  [documents EXCEPT ![d] =
                      InvalidateCache([@ EXCEPT !.capabilities = value,
                                                !.converter = NoConverter])],
                  None)

\* to_ssml() of Document d called by the method op up to the point where it
\* returns the cached SSML, raises, or calls the converter: _get_converter
\* runs before the ssmd property is read
CallToSsml(op, d, cached(_)) ==
    IF documents[d].cached_ssml # None
    THEN cached(documents[d].cached_ssml)
    ELSE IF DocumentCapabilities(documents[d]) = ValueError
            /\ ~documents[d].converter.made
    THEN Returns(op, d, documents, Raised("ValueError"))
    ELSE Bind([documents EXCEPT ![d] = GetConverter(@)], LAMBDA D :
         IF ssmd(D[d]) = IndexError THEN Returns(op, d, D, IndexError)
         ELSE Converts(op, d, D))

\* doc.to_ssml()
ToSsml ==
    /\ MayCall
    /\ \E d \in Self :
          CallToSsml("to_ssml", d, LAMBDA ssml : Returns("to_ssml", d, documents, ssml))

\* the body __len__, __getitem__ and sentences() share, after to_ssml has
\* returned ssml: the sentence list is cached; len(doc) returns its length
CacheSentences(d, ssml) ==
    Returns("len", d,
            [documents EXCEPT ![d].cached_sentences = extract_sentences(ssml)],
            <<Len(extract_sentences(ssml))>>)

\* len(doc), the sentence query
Length ==
    /\ MayCall
    /\ \E d \in Self :
          IF documents[d].cached_sentences # None
          THEN Returns("len", d, documents, <<Len(documents[d].cached_sentences)>>)
          ELSE CallToSsml("len", d, LAMBDA ssml : CacheSentences(d, ssml))

\* converter.convert returns to to_ssml, which caches the SSML, or raises
\* through it
ConvertReturns ==
    /\ call.op # "none"
    /\ pc \in {"done", "RecursionError"}
    /\ pc' = "document"
    /\ call' = [call EXCEPT !.op = "none"]
    /\ IF pc = "RecursionError"
       THEN /\ returned' = [op |-> call.op, doc |-> call.doc, value |-> RecursionError]
            /\ UNCHANGED documents
       ELSE IF call.op = "to_ssml"
       THEN /\ documents' = [documents EXCEPT ![call.doc].cached_ssml = text]
            /\ returned' = [op |-> call.op, doc |-> call.doc, value |-> text]
       ELSE /\ documents' = [documents EXCEPT
                                ![call.doc].cached_ssml = text,
                                ![call.doc].cached_sentences = extract_sentences(text)]
            /\ returned' = [op |-> call.op, doc |-> call.doc,
                            value |-> <<Len(extract_sentences(text))>>]
    /\ UNCHANGED <<config, processors, mode, input, text, idx, depth, round,
                   prev, capabilities, loaderVars, parserVars>>

\* the Documents are constructed with the default config and without
\* capabilities: the first without content, with emphasis or with deep
\* emphasis, the others without content or with a word
InitDocument ==
    /\ \E content \in {<<>>, <<"*", "a", "*">>, DeepText}, other \in {<<>>, <<"a">>} :
          documents = [d \in DocumentIds |->
                          Document(IF d \in Self THEN content ELSE other,
                                   UserConfig(TRUE, FALSE), NoneGiven)]
    /\ call = NoCall
    /\ returned = [op |-> "__init__", doc |-> 1, value |-> None]
    /\ config = DefaultConfig
    /\ processors = InitProcessors(DefaultConfig)
    /\ mode = "convert"
    /\ input = <<>>
    /\ text = <<>>
    /\ pc = "document"
    /\ idx = 1
    /\ depth = 1
    /\ round = 1
    /\ prev = <<>>
    /\ capabilities = None
    /\ LoaderIdle
    /\ ParserIdle

NextDocument ==
    \/ Add \/ AddSentence \/ AddParagraph \/ Insert \/ Merge \/ Clear
    \/ ReplaceCall \/ SetConfig \/ SetCapabilities \/ ToSsml \/ Length
    \/ Escape \/ ProcessRecursively \/ Unescape \/ SpeakWrap \/ PrettyPrint
    \/ ConvertReturns

\* calls of the methods of two Documents, one after the other
SpecDocument == InitDocument /\ [][NextDocument]_vars

(***************************************************************************)
(* Properties                                                              *)
(***************************************************************************)
\* the order of the processors the specification states
StatedOrder ==
    <<"emphasis", "annotation", "mark", "prosody", "heading", "paragraph",
      "sentence", "break">>

\* processor p applied to t until the rewrite changes nothing
RECURSIVE FixedPoint(_, _, _)
FixedPoint(p, t, cfg) ==
    LET r == Substitute(p, t, cfg) IN IF r = t THEN t ELSE FixedPoint(p, r, cfg)

\* the first k processors of ps, each run to its fixed point, one after the
\* other
RECURSIVE RunInOrder(_, _, _, _)
RunInOrder(ps, k, t, cfg) ==
    IF k = 0 THEN t
    ELSE FixedPoint(ps[k], RunInOrder(ps, k - 1, t, cfg), cfg)

\* the non-skipped processors in the stated order
StatedProcessors(cfg) ==
    LET keep(n) == n \notin cfg.skip IN SelectSeq(StatedOrder, keep)

\* the text every stage of a convert call is stated to hold
StagedText(stage) ==
    LET ps == StatedProcessors(config)
        t1 == RunInOrder(ps, Len(ps), escape_xml(input), config)
        t2 == unescape_xml(t1)
        t3 == IF config.output_speak_tag
              THEN <<"<speak>">> \o t2 \o <<"</speak>">> ELSE t2
    IN  CASE stage = "unescape" -> t1
          [] stage = "speak"    -> t2
          [] stage = "pretty"   -> t3
          [] OTHER -> IF config.pretty_print THEN format_xml(t3) ELSE t3

\* C1: in every convert call the non-skipped processors run in the order
\* emphasis, annotation, mark, prosody, heading, paragraph, sentence, break,
\* each to its fixed point before the next starts and none again later; the
\* text is escaped before the first and unescaped after the last, then wrapped
\* in <speak> if configured, then pretty-printed if configured.  At every
\* stage the text is the one this order produces: while processor idx runs,
\* finishing it gives what the first idx processors give on the escaped input.
C1_PipelineOrder ==
    mode = "convert" =>
        /\ processors = StatedProcessors(config)
        /\ pc = "escape" => text = input
        /\ pc = "process" =>
              FixedPoint(processors[idx], text, config)
                  = RunInOrder(processors, idx, escape_xml(input), config)
        /\ pc \in {"unescape", "speak", "pretty", "done"} => text = StagedText(pc)

\* a convert call with <speak> wrap and pretty-print has returned, in which
\* the emphasis, the paragraph and the break processor each rewrote the text
C1_Witness ==
    /\ mode = "convert"
    /\ pc = "done"
    /\ config.output_speak_tag
    /\ config.pretty_print
    /\ {"emphasis", "paragraph", "break"} \subseteq Range(processors)
    /\ EmphasisSearch(escape_xml(input)).ok
    /\ BreakSearch(escape_xml(input)).ok
    /\ text # input

\* C2: for every processor and every finite text, however many matches it
\* holds, _process_recursively terminates and returns a text: no call of
\* convert or strip ends in a RecursionError.
C2_ReturnsText == pc # "RecursionError"

\* the processors with a capability flag of their own, as (flag, processor)
FlaggedProcessors ==
    {<<"emphasis", "emphasis">>, <<"break_tags", "break">>, <<"mark", "mark">>,
     <<"prosody", "prosody">>}

\* C3: when a capability flag that maps to a processor (emphasis, break_tags,
\* mark, prosody) is off, convert emits the content of the affected markup
\* with the markers removed: once the processors are through, the text holds
\* no match of such a processor's pattern.
C3_MarkersRemoved ==
    (mode = "convert" /\ pc = "unescape" /\ config.capabilities.present) =>
        \A fp \in FlaggedProcessors :
            ~config.capabilities[fp[1]] => ~Search(fp[2], text).ok

\* the tokens of an output outside tags and attribute values, from position k
\* on; in_tag: position k lies inside a tag
RECURSIVE Visible(_, _, _)
Visible(t, k, in_tag) ==
    IF k > Len(t) THEN <<>>
    ELSE IF in_tag THEN Visible(t, k + 1, t[k] \notin {">", "/>"})
    ELSE IF t[k] = "<" \/ t[k] \in OpenAttrPieces THEN Visible(t, k + 1, TRUE)
    ELSE IF t[k] \in Pieces THEN Visible(t, k + 1, FALSE)
    ELSE <<t[k]>> \o Visible(t, k + 1, FALSE)

VisibleText(t) == Visible(t, 1, FALSE)

\* the words of a text: its maximal runs of letters and digits
RECURSIVE WordsOf(_)
WordsOf(s) ==
    LET a == RunEnd(s, 1, Alnum)
        b == SpanEnd(s, a, Alnum)
    IN  IF a > Len(s) THEN <<>>
        ELSE <<Slice(s, a, b - 1)>> \o WordsOf(From(s, b))

\* ws is a subsequence of vs
RECURSIVE IsSubsequence(_, _)
IsSubsequence(ws, vs) ==
    IF ws = <<>> THEN TRUE
    ELSE IF vs = <<>> THEN FALSE
    ELSE IF Head(ws) = Head(vs) THEN IsSubsequence(Tail(ws), Tail(vs))
    ELSE IsSubsequence(ws, Tail(vs))

\* no processor's pattern matches the escaped text t
MarkupFree(t) ==
    \A p \in Range(StatedOrder) \ {"paragraph", "sentence"} : ~Search(p, t).ok

\* C5: for any capability configuration and any input, all non-markup words
\* of the input appear, in their order, in the visible text of convert's
\* output; stated for the inputs without any markup, all of whose words are
\* non-markup words.
C5_TextPreserved ==
    (mode = "convert" /\ pc = "done" /\ MarkupFree(escape_xml(input))) =>
        IsSubsequence(WordsOf(input), WordsOf(VisibleText(text)))

\* the kinds of element that occur in an output
ElementKinds(t) ==
    {CloseOf(t[k]) : k \in {j \in 1..Len(t) :
        t[j] \in (StartPieces \cup VoidPieces \cup (OpenAttrPieces \ MoreAttrPieces)
                  \cup {"<amazon:effect name=\"whispered\">"})}}

\* C6: for capability sets A <= B and any input X, every kind of element in
\* convert(X, A) also occurs in convert(X, B); the second call converts the
\* input of the first with capabilities that support all the first ones did.
C6_Monotone ==
    (mode = "convert" /\ pc = "done" /\ round = 2) =>
        ElementKinds(prev) \subseteq ElementKinds(text)

\* C10: strip(strip(X)) = strip(X); the second call strips what the first
\* one returned.
C10_StripIdempotent ==
    (mode = "strip" /\ pc = "done" /\ round = 2) => text = prev

\* the bracket group of the input, and its params one by one
Group == AnnotationSearch(escape_xml(input))

GroupParts == AnnotationParts(Group.params)

\* the variants the params of the group resolve to
GroupKinds == {get_annotation(GroupParts[k]).kind : k \in 1..Len(GroupParts)}

\* the capability of an annotation variant is on
CapabilityOn(kind) == ~config.capabilities.present \/ config.capabilities[kind]

\* the positions of the pieces S in t
Posns(t, S) == {k \in 1..Len(t) : t[k] \in S}

\* the start-tag pieces of the element of an annotation variant
VariantPieces(kind) ==
    CASE kind = "language"     -> {"<lang xml:lang=\""}
      [] kind = "phoneme"      -> {"<phoneme alphabet=\"ipa\" ph=\""}
      [] kind = "substitution" -> {"<sub alias=\""}
      [] kind = "say_as"       -> {"<say-as interpret-as=\""}
      [] kind = "audio"        -> {"<audio src=\""}
      [] kind = "prosody"      -> {"<prosody volume=\"", "<prosody rate=\"",
                                   "<prosody pitch=\""}
      [] kind = "voice"        -> {"<voice >", "<voice name=\"", "<voice language=\"",
                                   "<voice gender=\"", "<voice variant=\""}
      [] OTHER -> {}

\* the output holds an element of the variant; an <audio> element of the
\* Audio variant has an end tag
HasElement(t, kind) ==
    IF kind = "audio" THEN "</audio>" \in Range(t)
    ELSE Posns(t, VariantPieces(kind)) # {}

\* C4: for every bracket group and every capability set, convert emits no
\* element for an annotation variant whose capability is off (language,
\* phoneme, substitution, say-as, audio, prosody), still emits the elements of
\* the supported variants of the same group, and the bracketed text remains.
C4_DisabledVariants ==
    (mode = "convert" /\ pc = "done") =>
        LET g     == Group
            kinds == GroupKinds
        IN  g.ok =>
              /\ \A kind \in AnnotationFlags :
                    IF CapabilityOn(kind)
                    THEN kind \in kinds => HasElement(text, kind)
                    ELSE ~HasElement(text, kind)
              /\ \E i \in 1..Len(text) : StartsAt(text, i, g.content)

\* a group with a language param and a substitution param was converted with
\* language off: the <sub> element is there, no <lang> element is
C4_Witness ==
    /\ mode = "convert"
    /\ pc = "done"
    /\ Group.ok
    /\ {"language", "substitution"} \subseteq GroupKinds
    /\ config.capabilities.present
    /\ ~config.capabilities.language
    /\ HasElement(text, "substitution")
    /\ ~HasElement(text, "language")

\* the annotations of the group that emit an element, in resolution order
Resolved ==
    LET rs == ResolveAnnotations(config.capabilities, Group.params)
        emits(a) == a.kind # "extension" \/ a.extension_name \in DEFAULT_EXTENSIONS
    IN  SelectSeq(rs, emits)

\* the pieces that start and that end the element of annotation a
OpenPieces(a) ==
    IF a.kind # "extension" THEN VariantPieces(a.kind)
    ELSE IF a.extension_name = Name_whisper
    THEN {"<amazon:effect name=\"whispered\">"}
    ELSE {"<audio src=\""}

ClosePieces(a) ==
    IF a.kind # "extension" THEN {CloseOf(c) : c \in VariantPieces(a.kind)}
    ELSE IF a.extension_name = Name_whisper THEN {"</amazon:effect>"}
    ELSE {"/>"}

\* the position where the start tag that opens at o ends
TagEnd(t, o) ==
    IF t[o] \in OpenAttrPieces THEN RunEnd(t, o + 1, {">", "/>"}) ELSE o

\* the elements of annotation a in t: the positions of the start tag's
\* beginning and end and of the end tag; an empty-element tag is its own end
ElementsOf(t, a) ==
    {e \in Posns(t, OpenPieces(a)) \X (1..Len(t)) \X Posns(t, ClosePieces(a)) :
        /\ e[2] = TagEnd(t, e[1])
        /\ IF t[e[2]] = "/>" THEN e[3] = e[2] ELSE e[2] < e[3]}

\* in t the element of annotation inner is in the content of the element of
\* annotation outer
Encloses(t, outer, inner) ==
    \E x \in ElementsOf(t, outer), y \in ElementsOf(t, inner) :
        x[2] < y[1] /\ y[3] < x[3]

\* in t the text c is in the content of the element of annotation a, with no
\* start tag of another annotation between the start tag of a and c
Innermost(t, a, c) ==
    \E x \in ElementsOf(t, a), i \in 1..Len(t) :
        /\ x[2] < i
        /\ i + Len(c) - 1 < x[3]
        /\ StartsAt(t, i, c)
        /\ \A j \in (x[2] + 1)..(i - 1) : ~HasLt(t[j]) \/ t[j] = "<desc>"

\* C7: for a bracket group whose params resolve to several distinct supported
\* variants, the elements nest in resolution order: the element of the
\* first-resolved annotation is innermost around the text, and each
\* later-resolved one encloses everything the earlier ones produced.
C7_NestingOrder ==
    (mode = "convert" /\ pc = "done") =>
        LET g  == Group
            rs == Resolved
        IN  (g.ok /\ Len(rs) >= 2) =>
              /\ Innermost(text, rs[1], g.content)
              /\ \A i \in 1..Len(rs) : \A j \in (i + 1)..Len(rs) :
                    Encloses(text, rs[j], rs[i])

\* the group uses the audio extension
UsesAudioExtension ==
    \E k \in 1..Len(Resolved) :
        Resolved[k].kind = "extension" /\ Resolved[k].extension_name = Name_audio

\* the nesting of C7 for the groups that do not use the audio extension
NestingOrderOfElements == UsesAudioExtension \/ C7_NestingOrder

\* the value of the first attribute in t that one of the pieces S starts
AttrValue(t, S) ==
    LET o == MinOf(Posns(t, S)) IN Slice(t, o + 1, RunEnd(t, o + 1, {"\""}) - 1)

\* the pieces that start the attribute f of a <prosody> element
ProsodyPieces(f) ==
    CASE f = "volume" -> {"<prosody volume=\"", " volume=\""}
      [] f = "rate"   -> {"<prosody rate=\"", " rate=\""}
      [] OTHER        -> {"<prosody pitch=\"", " pitch=\""}

\* the supported annotations the params resolve to one by one, in order
PartAnnotations ==
    LET as == [k \in 1..Len(GroupParts) |-> get_annotation(GroupParts[k])]
        ok(a) == a.kind # "none" /\ IsAnnotationSupported(config.capabilities, a)
    IN  SelectSeq(as, ok)

\* C8: for every bracket group the output holds at most one element per
\* annotation variant; a later param of a variant already seen adds no second
\* element and overrides no value already set: the language is that of the
\* first language param, and each of volume, rate and pitch is the value of
\* the first prosody param that sets it.
C8_OnePerVariant ==
    (mode = "convert" /\ pc = "done") =>
        LET g  == Group
            as == PartAnnotations
            first(kind) == as[MinOf({k \in 1..Len(as) : as[k].kind = kind})]
            sets(f) == {k \in 1..Len(as) : as[k].kind = "prosody" /\ as[k][f] # <<>>}
        IN  g.ok =>
              /\ \A kind \in AnnotationFlags \ {"audio"} :
                    Cardinality(Posns(text, VariantPieces(kind))) <= 1
              /\ Cardinality(Posns(text, {"</audio>"})) <= 1
              /\ Cardinality(Posns(text, {"<amazon:effect name=\"whispered\">"})) <= 1
              /\ Cardinality(Posns(text, {"/>"})) <= 1
              /\ (\E k \in 1..Len(as) : as[k].kind = "language") =>
                    AttrValue(text, VariantPieces("language")) = first("language").lang
              /\ \A f \in {"volume", "rate", "pitch"} :
                    sets(f) # {} =>
                        AttrValue(text, ProsodyPieces(f)) = as[MinOf(sets(f))][f]

\* a group with two language params of different languages and two volume
\* params of different values has been converted, or one whose rate comes
\* from a later prosody param than its volume
C8_Witness ==
    /\ mode = "convert"
    /\ pc = "done"
    /\ Group.ok
    /\ LET as == PartAnnotations
       IN  \/ \E i, j \in 1..Len(as) :
                 /\ i < j
                 /\ as[i].kind = "language" /\ as[j].kind = "language"
                 /\ as[i].lang # as[j].lang
           \/ \E i, j, k \in 1..Len(as) :
                 /\ i < j /\ j < k
                 /\ as[i].kind = "prosody" /\ as[j].kind = "prosody"
                 /\ as[k].kind = "prosody"
                 /\ as[i].volume # <<>> /\ as[k].volume # <<>>
                 /\ as[i].volume # as[k].volume
                 /\ as[j].rate # <<>>
                 /\ Len(Posns(text, {" rate=\""})) = 1

\* C9: with a capability set whose extension map marks only whisper as
\* false, a bracket group using any other built-in extension is still
\* rewritten by that extension's handler (the audio extension: an <audio>
\* element around nothing); only whisper is reduced to its text.
C9_OtherExtensions ==
    (/\ mode = "convert"
     /\ pc = "done"
     /\ config.capabilities.present
     /\ config.capabilities.extensions = (Name_whisper :> FALSE)) =>
        LET g  == Group
            ps == GroupParts
        IN  g.ok =>
              /\ (\E k \in 1..Len(ps) :
                     /\ get_annotation(ps[k]).kind = "extension"
                     /\ get_annotation(ps[k]).extension_name = Name_audio)
                    => Posns(text, {"/>"}) # {}
              /\ Posns(text, {"<amazon:effect name=\"whispered\">"}) = {}

\* the preset names the documentation of get_preset and SSMD lists, with the
\* two aliases of the preset table
StatedPresets ==
    {<<"e", "s", "p", "e", "a", "k">>, <<"p", "y", "t", "t", "s", "x", "3">>,
     <<"g", "o", "o", "g", "l", "e">>, <<"p", "o", "l", "l", "y">>,
     <<"a", "m", "a", "z", "o", "n">>, <<"a", "z", "u", "r", "e">>,
     <<"m", "i", "c", "r", "o", "s", "o", "f", "t">>,
     <<"m", "i", "n", "i", "m", "a", "l">>, <<"f", "u", "l", "l">>}

\* the call has ended with an exception
Failed == pc \in {"ValueError", "RecursionError"}

\* get_preset part of C11: the constructor raises ValueError exactly for the
\* names whose lower-cased form is not a preset, before any text is processed,
\* and a call that got past the constructor runs with the preset of the name
PresetLookup ==
    /\ pc = "ValueError" =>
          /\ LowerSeq(capabilities) \notin StatedPresets
          /\ text = input /\ processors = <<>>
    /\ pc \notin {"init", "ValueError"} =>
          /\ LowerSeq(capabilities) \in StatedPresets
          /\ config.capabilities = PRESETS[LowerSeq(capabilities)]

\* C11: a conversion fails if and only if the preset name is unknown:
\* ValueError is raised exactly for the names whose lower-cased form is not
\* in the preset table, before any text is processed, and no input text
\* makes convert or strip fail.
C11_OnlyUnknownPresetFails ==
    /\ PresetLookup
    /\ Failed => LowerSeq(capabilities) \notin StatedPresets

\* what a complete run of the loop builds from the lines k.. of the file
RECURSIVE LoadFrom(_, _, _)
LoadFrom(table, lines, k) ==
    IF k > Len(lines) THEN table
    ELSE LoadFrom(ReadLine(table, lines[k]), lines, k + 1)

\* the completely built table of the file
CompleteTable ==
    IF table_file.exists THEN LoadFrom(EmptyDict, table_file.lines, 1) ELSE EmptyDict

\* the table has the entries _xsampa_to_ipa replaces by (XsampaTable)
HasStatedEntries(table) ==
    table_file.lines = XsampaFile =>
        /\ DOMAIN table = {XsampaTable[k][1] : k \in 1..Len(XsampaTable)}
        /\ \A k \in 1..Len(XsampaTable) : table[XsampaTable[k][1]] = XsampaTable[k][2]

\* every caller that has returned holds a completely built table
CallersGetComplete ==
    \A t \in DOMAIN threads :
        threads[t].pc = "done" =>
            /\ threads[t].result # NoTable
            /\ tables[threads[t].result] = CompleteTable
            /\ HasStatedEntries(tables[threads[t].result])

\* the published table is completely built
PublishedComplete ==
    XSAMPA_TABLE # NoTable => tables[XSAMPA_TABLE] = CompleteTable

\* a step changes neither the published dict nor a dict a caller was given
NeverMutated ==
    /\ XSAMPA_TABLE # NoTable => tables'[XSAMPA_TABLE] = tables[XSAMPA_TABLE]
    /\ \A t \in DOMAIN threads :
          threads[t].pc = "done" =>
              tables'[threads[t].result] = tables[threads[t].result]

\* C12: under any interleaving of concurrent first calls of the loader every
\* caller gets a completely built table, all tables built are equal, and the
\* shared table is never mutated once published; the worst case is that
\* several callers build the table.
C12_LoaderSafe ==
    /\ [](CallersGetComplete /\ PublishedComplete)
    /\ [][NeverMutated]_vars

\* two threads have both built the table and returned (duplicate
\* construction), and a third call has returned the shared one
C12_Witness ==
    /\ DOMAIN threads = Threads
    /\ table_file.lines = XsampaFile
    /\ \E t, u \in Threads :
          /\ t # u
          /\ threads[t].pc = "done" /\ threads[t].result = t
          /\ threads[u].pc = "done" /\ threads[u].result = u
          /\ XSAMPA_TABLE = u
    /\ \E t \in Threads : threads[t].pc = "done" /\ threads[t].calls = 2

\* the annotated substrings of a text in source order: the text between [
\* and ] of every annotation, and for a block what its inside reads as
RECURSIVE AnnotatedTexts(_, _)
AnnotatedTexts(t, i) ==
    IF i > Len(t) THEN <<>>
    ELSE LET m == SpanAnnotationAt(t, i)
         IN  IF m.ok
             THEN <<Slice(t, i + 1, m.close - 1)>> \o AnnotatedTexts(t, m.end + 1)
             ELSE AnnotatedTexts(t, i + 1)

\* clean_text[char_start:char_end]
Covered(r, a) == Slice(r.clean_text, a.char_start + 1, a.char_end)

\* the spans of the bracket annotations, in source order
BracketSpans(r) ==
    SelectSeq(r.annotations, LAMBDA a : a.kind = "annotation")

Transformations == {"say_as", "substitution", "phoneme", "audio"}

\* every segment the structured parser has returned so far
AllSegments ==
    Range(segments) \cup UNION {Range(sentences[k].segments) : k \in DOMAIN sentences}

\* C14: every segment returned by parse_segments or parse_sentences has at
\* most one of say_as, substitution, phoneme and audio set, whatever the
\* params of the bracket group are
C14_OneTransformation ==
    \A s \in AllSegments : Cardinality(DOMAIN s.features \cap Transformations) <= 1

\* a bracket group whose params fit the substitution branch and the audio
\* branch has been parsed, and one of the two is set
C14_Witness ==
    /\ input = <<"[", "7", "]", "(", "s", "u", "b", ":", "b", ".", "m", "p", "3", ")">>
    /\ Len(segments) = 1
    /\ Cardinality({b \in DOMAIN AnnotationBranches(<<"s", "u", "b", ":", "b", ".", "m", "p", "3">>) :
                       AnnotationBranches(<<"s", "u", "b", ":", "b", ".", "m", "p", "3">>)[b].cond}) > 1
    /\ DOMAIN segments[1].features \cap Transformations = {"substitution"}

\* the breaks (kind "break") or the marks (kind "mark") that the tokenizer
\* meets in t from position cur, in source order
RECURSIVE MarkersMet(_, _, _)
MarkersMet(t, cur, kind) ==
    LET m == CombinedSearch(t, cur)
    IN  IF ~m.ok THEN <<>>
        ELSE (IF m.kind # kind THEN <<>>
              ELSE IF kind = "mark" THEN <<Slice(t, m.start + 1, m.end)>>
              ELSE <<parse_break(Slice(t, m.start + 3, m.end))>>)
             \o MarkersMet(t, m.end + 1, kind)

\* the breaks or the marks that the segments record, segment by segment
RECURSIVE MarkersRecorded(_, _)
MarkersRecorded(segs, kind) ==
    IF segs = <<>> THEN <<>>
    ELSE (IF kind = "mark" THEN Head(segs).marks_before \o Head(segs).marks_after
          ELSE Head(segs).breaks_before \o Head(segs).breaks_after)
         \o MarkersRecorded(Tail(segs), kind)

\* parse_segments has returned its segments
SegmentsReturned == mode = "parse_segments" /\ pc \notin {"parse_segments", "ValueError"}

\* every marker met is recorded exactly once, in source order
C15_RecordedOnce ==
    SegmentsReturned =>
        /\ MarkersRecorded(segments, "break") = MarkersMet(input, 1, "break")
        /\ MarkersRecorded(segments, "mark") = MarkersMet(input, 1, "mark")

\* C15: a break or mark met before any segment exists goes to breaks_before /
\* marks_before of the first segment created afterwards; one met after a
\* segment exists goes to the latest segment's breaks_after / marks_after, so
\* only the first segment has markers before it; every marker is recorded
\* exactly once, in source order.
C15_MarkersAttached ==
    SegmentsReturned =>
        /\ \A k \in 2..Len(segments) :
              segments[k].breaks_before = <<>> /\ segments[k].marks_before = <<>>
        /\ MarkersRecorded(segments, "break") = MarkersMet(input, 1, "break")
        /\ MarkersRecorded(segments, "mark") = MarkersMet(input, 1, "mark")

\* the bracket annotations [text](params) of t from position cur, in order
RECURSIVE BracketAnnotations(_, _)
BracketAnnotations(t, cur) ==
    LET S == {i \in cur..Len(t) : AnnotationAt(t, i).ok}
    IN  IF S = {} THEN <<>>
        ELSE <<Slice(t, MinOf(S), AnnotationAt(t, MinOf(S)).end)>>
             \o BracketAnnotations(t, AnnotationAt(t, MinOf(S)).end + 1)

\* the bracket annotations of the sentence texts, sentence by sentence
RECURSIVE AnnotationsOfAll(_)
AnnotationsOfAll(texts) ==
    IF texts = <<>> THEN <<>>
    ELSE BracketAnnotations(Head(texts), 1) \o AnnotationsOfAll(Tail(texts))

\* C16: when the external sentence splitter is called, the text it receives
\* holds no bracket annotation (each was replaced by a placeholder), and the
\* sentences that are tokenized afterwards hold the annotations of the text
\* again, whole and in order.
C16_SplitterSeesNoMarkup ==
    /\ pc = "splitting" => BracketAnnotations(splitter_text, 1) = <<>>
    /\ (mode = "parse_sentences" /\ pc \in {"split", "parsed", "ValueError"}) =>
           AnnotationsOfAll(sentence_texts) = BracketAnnotations(splitter_text, 1)

\* the second half alone: the annotations are whole in the sentence texts
C16_AnnotationsWhole ==
    (mode = "parse_sentences" /\ pc \in {"split", "parsed", "ValueError"}) =>
        AnnotationsOfAll(sentence_texts) = BracketAnnotations(splitter_text, 1)

\* the names of the <mark> elements of an output, in order
RECURSIVE MarkNames(_, _)
MarkNames(t, cur) ==
    LET S == {k \in cur..Len(t) : t[k] = "<mark name=\""}
    IN  IF S = {} THEN <<>>
        ELSE <<Slice(t, MinOf(S) + 1, RunEnd(t, MinOf(S) + 1, {"\""}) - 1)>>
             \o MarkNames(t, MinOf(S) + 1)

\* parse_segments(input) has returned and to_ssml(input) of a converter
\* with all features has returned
BothPassesDone == mode = "parse_segments" /\ pc = "done" /\ capabilities = None

\* the input has a line that begins with a @voice: directive
HasVoiceDirective == \E i \in 1..Len(input) : VoiceDirectiveAt(input, i).ok

\* C17: the rewrite pipeline and the structured parser treat the same '@'
\* tokens as marks: the names of the <mark> elements convert emits are the
\* names parse_segments records in its marks lists; and the "voice" of a
\* '@voice:' directive line is a mark for neither pass.
C17_SameMarks ==
    BothPassesDone =>
        /\ MarkNames(text, 1) = MarkersRecorded(segments, "mark")
        /\ HasVoiceDirective =>
              /\ <<"v", "o", "i", "c", "e">> \notin Range(MarkNames(text, 1))
              /\ <<"v", "o", "i", "c", "e">> \notin Range(MarkersRecorded(segments, "mark"))

\* the features a segment can carry
SegmentFeatures ==
    {"language", "prosody", "say_as", "phoneme", "substitution", "audio",
     "extension", "voice"}

\* the features for which the output t holds an element
EmittedFeatures(t) ==
    {kind \in SegmentFeatures \ {"extension"} : HasElement(t, kind)}
    \cup (IF "<amazon:effect name=\"whispered\">" \in Range(t)
          THEN {"extension"} ELSE {})

\* the input is one bracket group
InputIsGroup == AnnotationAt(input, 1).ok /\ AnnotationAt(input, 1).end = Len(input)

\* C18: for every bracket group, also one with several comma-separated
\* params, the segment of the structured parser carries exactly the features
\* for which convert emits an element around the same text.
C18_SameFeatures ==
    (BothPassesDone /\ InputIsGroup) =>
        /\ Len(segments) = 1
        /\ segments[1].text = AnnotationAt(input, 1).content
        /\ DOMAIN segments[1].features = EmittedFeatures(text)

\* the capability flags that segment s needs
FlagsUsed(s) ==
    (IF s.emphasis # "False" THEN {"emphasis"} ELSE {})
    \cup (DOMAIN s.features \cap AnnotationFlags)
    \cup (IF s.breaks_before # <<>> \/ s.breaks_after # <<>> THEN {"break_tags"} ELSE {})
    \cup (IF s.marks_before # <<>> \/ s.marks_after # <<>> THEN {"mark"} ELSE {})

\* the texts of the segments
TextsOf(segs) == [k \in DOMAIN segs |-> segs[k].text]

\* C19: parse_segments and parse_sentences called with a capability set
\* return no segment that carries a feature the set disables (emphasis,
\* language, phoneme, substitution, say-as, audio, prosody, breaks, marks),
\* and the texts of the segments are those of the call without capabilities.
C19_DisabledFeaturesFiltered ==
    LET caps == ResolveCapabilities(capabilities)
    IN  (capabilities # None /\ caps # ValueError) =>
            /\ \A s \in AllSegments : \A f \in FlagsUsed(s) : caps[f]
            /\ SegmentsReturned =>
                  TextsOf(segments) = TextsOf(parse_segments(input, NoCapabilities))

\* the '>' at position k of t ends the start tag that a processor opened
EndsTag(t, k) == \E o \in 1..(k - 1) : t[o] \in OpenAttrPieces /\ TagEnd(t, o) = k

\* C20: the XML special characters of the input never appear unescaped in
\* convert's output: it holds no raw '&' and no raw '<', and every raw '>'
\* ends a tag that a processor emitted.
C20_NoRawSpecials ==
    (mode = "convert" /\ pc = "done") =>
        \A k \in 1..Len(text) :
            /\ text[k] \notin {"&", "<"}
            /\ text[k] = ">" => EndsTag(text, k)

\* the kind of prosody attribute of a shorthand marker, "none" without mapping
MarkerKind(mk) ==
    IF mk \in {<<"-", "-">>, <<"-">>, <<"+">>, <<"+", "+">>} THEN "volume"
    ELSE IF mk \in {<<"&lt;", "&lt;">>, <<"&lt;">>, <<"&gt;">>, <<"&gt;", "&gt;">>}
    THEN "rate"
    ELSE IF mk \in {<<"_", "_">>, <<"_">>, <<"^">>, <<"^", "^">>} THEN "pitch"
    ELSE "none"

\* the sub-flag of a prosody attribute in the capabilities of the config
SubFlagOn(f) ==
    CASE f = "volume" -> config.capabilities.prosody_volume
      [] f = "rate"   -> config.capabilities.prosody_rate
      [] OTHER        -> config.capabilities.prosody_pitch

\* convert has returned under capabilities with prosody on
ProsodyOnDone ==
    /\ mode = "convert" /\ pc = "done"
    /\ config.capabilities.present /\ config.capabilities.prosody

\* the input is one prosody shorthand with a mapped marker
InputShorthand == ProsodyAt(escape_xml(input), 1)

\* C21: with prosody on and one sub-flag off, convert emits no prosody
\* attribute of the unsupported kind, from shorthand or from annotations;
\* a shorthand of a supported kind still becomes its attribute, and the text
\* of a shorthand is kept either way.
C21_PartialProsody ==
    ProsodyOnDone =>
        /\ \A f \in {"volume", "rate", "pitch"} :
              ~SubFlagOn(f) => Posns(text, ProsodyPieces(f)) = {}
        /\ (InputShorthand.ok /\ InputShorthand.end = Len(escape_xml(input))
               /\ MarkerKind(InputShorthand.marker) # "none") =>
              /\ SubFlagOn(MarkerKind(InputShorthand.marker)) =>
                    Posns(text, ProsodyPieces(MarkerKind(InputShorthand.marker))) # {}
              /\ \E i \in 1..Len(text) : StartsAt(text, i, InputShorthand.content)

\* C22: for every segment returned by parse_segments, position is the
\* character offset in the input at which the text of the segment starts, so
\* the positions are non-decreasing along the returned list.
C22_PositionIsOffset ==
    SegmentsReturned =>
        /\ \A k \in 1..Len(segments) :
              StartsAt(input, segments[k].position + 1, segments[k].text)
        /\ \A k \in 1..(Len(segments) - 1) :
              segments[k].position <= segments[k + 1].position

\* position k of t lies in the attribute value of a tag
InAttrValue(t, k) == InAttrScan(Upto(t, k - 1), 1, FALSE)

\* the pieces that open a <prosody> element
ProsodyOpen == {"<prosody volume=\"", "<prosody rate=\"", "<prosody pitch=\""}

\* the processors of convert have run, the text is still escaped
Processed == mode = "convert" /\ pc = "unescape"

\* no attribute value holds a <prosody> element
C23_NoneInside ==
    Processed => \A k \in Posns(text, ProsodyOpen) : ~InAttrValue(text, k)

\* every shorthand with a mapped marker that is left lies in an attribute value
C23_AllOutside ==
    (Processed /\ "prosody" \notin config.skip) =>
        \A i \in 1..Len(text) :
            (ProsodyAt(text, i).ok /\ MarkerKind(ProsodyAt(text, i).marker) # "none") =>
                InAttrValue(text, i)

\* C23: the prosody-shorthand processor never rewrites a match that lies in
\* the attribute value of an already-emitted tag, however many matches the
\* value holds, and it rewrites every match that lies outside attribute
\* values.
C23_AttributesUntouched == C23_NoneInside /\ C23_AllOutside

\* no heading line of a configured level is left in the processed text
C24_HeadingsRewritten ==
    Processed =>
        \A i \in 1..Len(text) :
            HeadingAt(text, i).ok => HeadingAt(text, i).level \notin DOMAIN config.heading_levels

\* no mapped prosody shorthand is left outside attribute values
C24_ShorthandRewritten ==
    Processed =>
        \A i \in 1..Len(text) :
            (ProsodyAt(text, i).ok /\ MarkerKind(ProsodyAt(text, i).marker) # "none") =>
                InAttrValue(text, i)

\* C24: a match whose rewrite leaves the text unchanged (a heading of a level
\* without effects, a prosody marker without a mapping) does not stop the
\* processor: every heading of a configured level and every mapped prosody
\* shorthand is rewritten wherever it stands in the text.
C24_NoOpDoesNotStop == C24_HeadingsRewritten /\ C24_ShorthandRewritten

\* the input has a paragraph, a blank line, and then a heading line
BlankLineBeforeHeading ==
    \E i \in 3..Len(input) :
        /\ input[i] = "#"
        /\ input[i - 1] = "\n" /\ input[i - 2] = "\n"
        /\ HeadingAt(input, i).ok
        /\ \E k \in 1..(i - 3) : input[k] \notin Spaces

\* C25: rewriting or stripping a heading changes only the heading line: the
\* newlines before it are preserved, so a blank line between a paragraph and
\* a following heading yields a paragraph boundary in convert and a blank
\* line in strip.
C25_HeadingKeepsBlankLine ==
    (pc = "done" /\ BlankLineBeforeHeading) =>
        IF mode = "convert"
        THEN \E i \in 1..Len(text) : StartsAt(text, i, <<"</p>", "<p>">>)
        ELSE \E i \in 1..Len(text) : StartsAt(text, i, <<"\n", "\n">>)

\* the number of runs of blank lines (two or more newlines) in t
BlankRuns(t) ==
    Cardinality({i \in 1..Len(t) :
        StartsAt(t, i, <<"\n", "\n">>) /\ (i = 1 \/ t[i - 1] # "\n")})

\* t is a sequence of non-nested <p>...</p> pairs with nothing outside them
WellPaired(t) ==
    /\ t # <<>>
    /\ t[1] = "<p>" /\ t[Len(t)] = "</p>"
    /\ \A i \in Posns(t, {"<p>"}) :
          /\ RunEnd(t, i + 1, {"<p>", "</p>"}) <= Len(t)
          /\ t[RunEnd(t, i + 1, {"<p>", "</p>"})] = "</p>"
    /\ \A i \in Posns(t, {"</p>"}) : i = Len(t) \/ t[i + 1] = "<p>"

\* convert is about to run the paragraph processor on a non-empty text
ParagraphPass ==
    /\ mode = "convert" /\ pc = "process"
    /\ processors[idx] = "paragraph"
    /\ text # <<>>

SayAsFormatGroup ==
    <<"[", "7", "]", "(">>
    \o JoinParams(<<<<"a", "s", ":", " ", "d", "a", "t", "e">>,
                    <<"f", "o", "r", "m", "a", "t", ":", " ", "b">>>>)
    \o <<")">>

\* the bracket group [7](as: date, format: b, detail: 2)
SayAsDetailGroup ==
    <<"[", "7", "]", "(">>
    \o JoinParams(<<<<"a", "s", ":", " ", "d", "a", "t", "e">>,
                    <<"f", "o", "r", "m", "a", "t", ":", " ", "b">>,
                    <<"d", "e", "t", "a", "i", "l", ":", " ", "2">>>>)
    \o <<")">>

\* C27: a bracket group with params "as: T, format: F", optionally followed
\* by "detail: N", converts to one <say-as> element that carries
\* interpret-as T and the format and detail attributes given.
C27_SayAsAttributes ==
    (/\ Processed
     /\ config.capabilities.present => config.capabilities.say_as
     /\ input \in {SayAsFormatGroup, SayAsDetailGroup})
    => text = <<"<p>">>
              \o SayAsWrap([interpret_as |-> <<"d", "a", "t", "e">>,
                            format |-> <<"b">>,
                            detail |-> IF input = SayAsDetailGroup
                                       THEN <<"2">> ELSE <<>>], <<"7">>)
              \o <<"</p>">>

\* the contents of the paragraphs of t: what stands between a <p> and the
\* next </p>
ParagraphContents(t) ==
    {Slice(t, i + 1, RunEnd(t, i, {"</p>"}) - 1) : i \in Posns(t, {"<p>"})}

\* c is a row of <s>...</s> elements, one per line, joined by single spaces:
\* nothing stands outside an element and no element holds a line break
SentencesOnly(c) ==
    /\ c # <<>>
    /\ c[1] = "<s>" /\ c[Len(c)] = "</s>"
    /\ \A i \in Posns(c, {"<s>"}) :
          /\ RunEnd(c, i + 1, {"<s>", "</s>", "\n"}) <= Len(c)
          /\ c[RunEnd(c, i + 1, {"<s>", "</s>", "\n"})] = "</s>"
          /\ RunEnd(c, i + 1, {"<s>", "</s>", "\n"}) > i + 1
    /\ \A i \in Posns(c, {"</s>"}) :
          i = Len(c) \/ (i + 2 <= Len(c) /\ c[i + 1] = " " /\ c[i + 2] = "<s>")

\* with auto_sentence_tags off no <s> is emitted
C28_OffNoSentenceTag ==
    (Processed /\ ~config.auto_sentence_tags) => Posns(text, {"<s>", "</s>"}) = {}

\* with auto_sentence_tags on every paragraph that holds a non-blank line
\* is a row of <s> elements
C28_OnEveryLineWrapped ==
    (Processed /\ config.auto_sentence_tags) =>
        \A c \in ParagraphContents(text) : Strip(c) # <<>> => SentencesOnly(c)

\* C28: with auto_sentence_tags on, every non-blank line of every paragraph
\* is wrapped in exactly one <s>...</s> inside its <p>, also when the
\* paragraph holds inline elements such as <emphasis> or <mark>; with it
\* off, no <s> is emitted.
C28_SentenceTags == C28_OffNoSentenceTag /\ C28_OnEveryLineWrapped

\* the separator list of every Document has one entry fewer than its
\* fragment list, or both are empty
C29_OneSeparatorFewer ==
    \A d \in DOMAIN documents :
        \/ documents[d].fragments = <<>> /\ documents[d].separators = <<>>
        \/ Len(documents[d].separators) = Len(documents[d].fragments) - 1

\* the ssmd property of every Document returns a text
C29_SsmdInRange ==
    \A d \in DOMAIN documents : ssmd(documents[d]) # IndexError

\* a method given the empty text, or merge given a Document without
\* fragments, would change nothing
C29_EmptyTextChangesNothing ==
    \A d \in DOMAIN documents :
        /\ add(documents[d], <<>>) = documents[d]
        /\ add_sentence(documents[d], <<>>) = documents[d]
        /\ add_paragraph(documents[d], <<>>) = documents[d]
        /\ \A i \in InsertIndexes : insert(documents[d], i, <<>>, <<"\n">>) = documents[d]
        /\ \A o \in DOMAIN documents :
              documents[o].fragments = <<>> =>
                  merge(documents, d, o, <<"\n", "\n">>) = documents

\* C29: after any sequence of Document operations (add, add_sentence,
\* add_paragraph, insert at any index, merge, clear, replace) the separator
\* list has exactly one entry fewer than the fragment list, or both are
\* empty, so the ssmd property joins every fragment and never indexes out of
\* range; an operation given empty text changes nothing.
C29_SeparatorsFitFragments ==
    C29_OneSeparatorFewer /\ C29_SsmdInRange /\ C29_EmptyTextChangesNothing

\* what a fresh Document with the content, config and capabilities of doc
\* returns from to_ssml(), or raises
FreshSsml(doc) ==
    IF DocumentCapabilities(doc) = ValueError THEN Raised("ValueError")
    ELSE IF ssmd(doc) = IndexError THEN IndexError
    ELSE convert(ConverterConfig(doc), ssmd(doc))

\* the cached converter of doc is the one its config and capabilities give
FreshConverter(doc) ==
    doc.converter.made =>
        /\ DocumentCapabilities(doc) # ValueError
        /\ doc.converter.config = ConverterConfig(doc)

\* the caches of doc hold what a fresh conversion gives
FreshCaches(doc) ==
    /\ doc.cached_ssml # None => doc.cached_ssml = FreshSsml(doc)
    /\ doc.cached_sentences # None =>
          doc.cached_sentences = extract_sentences(FreshSsml(doc))

\* C30: after any sequence of Document mutations and config or capabilities
\* assignments interleaved with to_ssml() and sentence queries, to_ssml()
\* returns what a fresh conversion of the current ssmd content under the
\* current config and capabilities returns: no operation leaves a stale
\* cached SSML, cached sentence list or cached converter.
C30_NoStaleCache ==
    /\ \A d \in DOMAIN documents :
          FreshConverter(documents[d]) /\ FreshCaches(documents[d])
    /\ (pc = "document" /\ returned.op = "to_ssml") =>
          returned.value = FreshSsml(documents[returned.doc])

\* replace has changed the content, a sentence query has filled both caches
\* after it, and to_ssml() has then returned the cached SSML
C30_Witness ==
    /\ pc = "document" /\ returned.op = "to_ssml"
    /\ \E k \in DOMAIN documents[1].fragments : "b" \in Range(documents[1].fragments[k])
    /\ documents[1].cached_sentences # None
    /\ documents[1].cached_ssml = returned.value

\* the step actions of convert and convert as a whole agree
ConvertAgrees ==
    /\ (mode = "convert" /\ pc = "done") => text = convert(config, input)
    /\ (mode = "convert" /\ pc = "RecursionError") =>
          convert(config, input) = RecursionError
====
